---- MODULE Spec2Model ----
(***************************************************************************)
(* State-machine model of the KHO MISS processing pipeline:                *)
(*   - the minute averaging engine (Average_png_Maker_Ask_Date.py and      *)
(*     Average_png_maker_Past5Minutes.py, whose per-bucket code is the     *)
(*     same text),                                                         *)
(*   - the keogram assembler (Keogram_Maker_*.py),                         *)
(*   - the row-position resolution of the RGB column makers                *)
(*     (RGB_Column_Maker_*.py).                                            *)
(*   - the per-file pass of the RGB column makers, their emission-line     *)
(*     profile and channel normalisation,                                  *)
(*   - the date prompt of the three by-date scripts,                       *)
(*   - the orchestrator (Real_Time_Miss_Data_Processor.py) and the         *)
(*     processes it starts and stops,                                      *)
(*   - the live pipeline in time: the capture loop (Capture_Atik.py), the  *)
(*     averaging process of each cycle and the day test of the live RGB    *)
(*     column maker,                                                       *)
(*   - the file names of one minute from stage to stage.                   *)
(* Each stage has its own specification over its own variables; the       *)
(* variables of the other stages stay at their initial value.              *)
(***************************************************************************)
EXTENDS Integers, Sequences, FiniteSets, TLC

VARIABLES
    \* ---- minute averaging engine ----
    rawFiles,           \* the raw-frame files in discovery (os.walk) order
    selected_date,      \* the date typed by the user, YYYYMMDD
    avg_pc,             \* position of the averaging script
    images_by_minute,   \* the bucket map, in insertion order
    bucket_i,           \* index of the bucket the outer loop is at
    frame_i,            \* index of the file the inner loop is at
    sum_img_array,      \* accumulator of the current bucket (None or array)
    count,              \* frames added to the accumulator
    metadata,           \* metadata of the first added frame (None or info)
    processed_minutes,  \* minute keys handled by this process
    avgDisk,            \* averaged-frame files on disk: path -> file
    saves,              \* save calls of this run, in order
    prevSaves,          \* save calls of the previous run of the script
    rerun,              \* whether the script has been run before on this disk
    \* ---- keogram assembler ----
    rgbFiles,           \* the RGB column files on disk
    tz_offset,          \* local time minus UTC on this machine, in minutes
    keo_pc,             \* position of the keogram script
    keo_now,            \* now (UTC) of the last live pass
    date_input,         \* the day of the raster being assembled
    keogram,            \* the raster: minute of day -> column
    keoDisk,            \* rendered keogram files on disk
    keo_script,         \* which keogram script this machine runs
    \* ---- row-position resolution ----
    cal,                \* the last evaluation: inputs and results
    \* ---- RGB column maker ----
    spectroFiles,       \* the averaged frames of the day, in os.listdir order
    rgb_pc,             \* position of the RGB column maker
    rgb_i,              \* index of the file the loop is at
    rgbDirs,            \* directories the maker has created
    rgbOut,             \* RGB column files the maker has written
    rgbLog,              \* what the maker did with each file, in order
    \* ---- one emission line, one channel ----
    chan,                \* the arguments of an evaluation and, once made, its result
    \* ---- the scripts that ask for a date ----
    ask,                 \* the script, the text typed, and what the run did
    \* ---- the orchestrator and the stage processes it starts ----
    orch_pc,            \* position of Real_Time_Miss_Data_Processor.py
    orch_next,          \* which script of the cycle it starts next
    cycle,              \* the cycle it is in (1 is the start-up)
    processes,          \* its list of subprocesses, each with its position
    started,            \* every start_subprocess call so far, in order
    pipeDisk,           \* the output file of each stage: absent, partial, complete
    stopped,             \* the subprocesses stopped and dropped from the list
    \* ---- the live pipeline in time ----
    clock,              \* seconds since 1 June 2024 00:00:00 UTC
    exposing,           \* start of the exposure the camera is making, or NoTime
    rawLive,            \* the raw frames on disk
    live_pc,            \* position of the averaging process of this cycle
    live_now,           \* current_time of the last averaging process
    live_buckets,       \* its images_by_minute
    live_processed,     \* its processed_minutes
    liveDisk,           \* the averaged frames on disk
    included,           \* the raw frames some saved average was made from
    next_pass,          \* when the next cycle is due
    passes_done,        \* averaging processes that have ended
    rgb_live_pc,        \* position of the live RGB process of this cycle
    rgb_loaded_at,      \* when its module-level code ran
    rgb_now,            \* current_time_UT of its create_rgb_columns
    current_day,        \* its global current_day
    processed_images,   \* its global processed_images
    \* ---- the name of one minute through the stages ----
    names               \* the files of the minute, stage by stage

avgVars == <<rawFiles, selected_date, avg_pc, images_by_minute, bucket_i,
             frame_i, sum_img_array, count, metadata, processed_minutes,
             avgDisk, saves, prevSaves, rerun>>

keoVars == <<rgbFiles, tz_offset, keo_pc, keo_now, date_input, keogram, keoDisk,
             keo_script>>

calVars == <<cal>>

rgbVars == <<spectroFiles, rgb_pc, rgb_i, rgbDirs, rgbOut, rgbLog>>

chanVars == <<chan>>

askVars == <<ask>>

pipeVars == <<orch_pc, orch_next, cycle, processes, started, pipeDisk, stopped>>

liveVars == <<clock, exposing, rawLive, live_pc, live_now, live_buckets, live_processed,
              liveDisk, included, next_pass, passes_done, rgb_live_pc,
              rgb_loaded_at, rgb_now, current_day, processed_images>>

nameVars == <<names>>

vars == <<avgVars, keoVars, calVars, rgbVars, chanVars, askVars, pipeVars, liveVars, nameVars>>

\* What a stage leaves alone: the variables of the other stages.
notAvgVars == <<keoVars, calVars, rgbVars, chanVars, askVars, pipeVars, liveVars, nameVars>>
notKeoVars == <<avgVars, calVars, rgbVars, chanVars, askVars, pipeVars, liveVars, nameVars>>
notCalVars == <<avgVars, keoVars, rgbVars, chanVars, askVars, pipeVars, liveVars, nameVars>>
notRgbVars == <<avgVars, keoVars, calVars, chanVars, askVars, pipeVars, liveVars, nameVars>>
notNameVars == <<avgVars, keoVars, calVars, rgbVars, chanVars, askVars, pipeVars, liveVars>>
notLiveVars == <<avgVars, keoVars, calVars, rgbVars, chanVars, askVars, pipeVars, nameVars>>
notPipeVars == <<avgVars, keoVars, calVars, rgbVars, chanVars, askVars, liveVars, nameVars>>
notAskVars == <<avgVars, keoVars, calVars, rgbVars, chanVars, pipeVars, liveVars, nameVars>>
notChanVars == <<avgVars, keoVars, calVars, rgbVars, askVars, pipeVars, liveVars, nameVars>>

(***************************************************************************)
(* Bounds of the model.                                                    *)
(***************************************************************************)
MaxFiles == 3       \* raw-frame files under the raw folder
MaxRgbFiles == 2    \* RGB column files under the RGB folder

(***************************************************************************)
(* Small helpers.                                                          *)
(***************************************************************************)
Range(s) == {s[i] : i \in 1..Len(s)}

(***************************************************************************)
(* Raw frames.  A file is its name (device, date part, time part), whether *)
(* PIL can open and decode it, its pixel array (flattened; its length      *)
(* stands for the shape) and its text metadata (img.info) as an ordered    *)
(* list of <<key, value>>; a value is a list of words.                     *)
(***************************************************************************)
Info_capture ==
    << <<"Exposure Time", <<"12", "seconds">>>>,
       <<"Date/Time", <<"20240601-120301">>>>,
       <<"Temperature", <<"-15", "C">>>>,
       <<"Note", <<"MISS2", "KHO/UNIS">>>>,
       <<"Binning", <<"4x1">>>> >>

Info_other ==
    << <<"dpi", <<"72">>>>,
       <<"Note", <<"MISS2", "test">>>>,
       <<"Binning", <<"1x1">>>> >>

Content_capture ==
    [decodes |-> TRUE, pixels |-> <<65535, 65535>>, info |-> Info_capture]

FrameContents ==
    { Content_capture,
      [decodes |-> TRUE,  pixels |-> <<65535, 2>>, info |-> Info_other],
      [decodes |-> TRUE,  pixels |-> <<7, 7, 7>>,  info |-> <<>>],
      [decodes |-> FALSE, pixels |-> <<>>,         info |-> <<>>] }

\* Names of the first day: two in minute 12:03, one in minute 12:04.
FrameNames ==
    { [dev |-> "MISS2", date |-> 20240601, time |-> 120301],
      [dev |-> "MISS2", date |-> 20240601, time |-> 120340],
      [dev |-> "MISS2", date |-> 20240601, time |-> 120400] }

\* A frame of another day and a frame of the other device.
OtherNames ==
    { [dev |-> "MISS2", date |-> 20240602, time |-> 120301],
      [dev |-> "MISS1", date |-> 20240601, time |-> 120301] }

Frame(n, c) ==
    [dev |-> n.dev, date |-> n.date, time |-> n.time,
     decodes |-> c.decodes, pixels |-> c.pixels, info |-> c.info]

FrameName(f) == [dev |-> f.dev, date |-> f.date, time |-> f.time]

RawFrames ==
    {Frame(n, c) : n \in FrameNames, c \in FrameContents}
        \cup {Frame(n, Content_capture) : n \in OtherNames}

\* Directory listings: at most MaxFiles files, no two with the same name.
RawListings ==
    { s \in UNION { [1..n -> RawFrames] : n \in 0..MaxFiles } :
        \A i, j \in 1..Len(s) : i # j => FrameName(s[i]) # FrameName(s[j]) }

SelectedDates == {20240601, 20240602}

(***************************************************************************)
(* average_images: discovery and grouping.                                 *)
(***************************************************************************)
\* filename_regex = ^MISS2-(\d{8})-(\d{6})\.png$
filename_regex(f) == f.dev = "MISS2"

\* minute_key = date_part + '-' + time_part[:4]
minute_key_of(f) == <<f.date, f.time \div 100>>

\* images_by_minute[minute_key].append(filepath), a dict in insertion order
AppendToBucket(buckets, key, f) ==
    IF \E i \in 1..Len(buckets) : buckets[i].key = key
    THEN [i \in 1..Len(buckets) |->
            IF buckets[i].key = key
            THEN [buckets[i] EXCEPT !.filepaths = Append(@, f)]
            ELSE buckets[i]]
    ELSE Append(buckets, [key |-> key, filepaths |-> <<f>>])

RECURSIVE GroupByMinute(_, _, _)
GroupByMinute(files, date, buckets) ==
    IF files = <<>> THEN buckets
    ELSE LET f == Head(files) IN
         GroupByMinute(Tail(files), date,
            IF filename_regex(f) /\ f.date = date
            THEN AppendToBucket(buckets, minute_key_of(f), f)
            ELSE buckets)

(***************************************************************************)
(* average_images: the accumulator of one bucket.                          *)
(***************************************************************************)
NoArray == [some |-> FALSE, arr |-> <<>>]
NoMetadata == [some |-> FALSE, info |-> <<>>]

\* sum_img_array += img_array on a float64 accumulator: sums of 16-bit
\* values are exact integers far below 2^53.
AccAdd_uint16(a, b) == (a + b) % 65536
AccAdd(a, b) == a + b

\* if metadata is None: metadata = img.info
FirstMetadata_last(cur, info) == [some |-> TRUE, info |-> info]
FirstMetadata(cur, info) ==
    IF cur.some THEN cur ELSE [some |-> TRUE, info |-> info]

\* The body of the try block for one file.  raised = TRUE is the except
\* branch: whatever was assigned before the exception stays assigned.
TryAddFrame(acc, f) ==
    IF ~f.decodes
    THEN [acc EXCEPT !.raised = TRUE]                  \* Image.open / np.array
    ELSE LET s0 == IF acc.sum.some THEN acc.sum
                   ELSE [some |-> TRUE,
                         arr |-> [i \in 1..Len(f.pixels) |-> 0]]
         IN IF Len(s0.arr) # Len(f.pixels)
            THEN [acc EXCEPT !.sum = s0, !.raised = TRUE]   \* shapes differ
            ELSE [sum |-> [some |-> TRUE,
                           arr |-> [i \in 1..Len(s0.arr) |->
                                       AccAdd(s0.arr[i], f.pixels[i])]],
                  count |-> acc.count + 1,
                  metadata |-> FirstMetadata(acc.metadata, f.info),
                  raised |-> FALSE]

\* except Exception as e: print(...)  -- the loop goes on with the next file
OnFrameError_abort == "aborted"
OnFrameError == "bucket"

\* averaged_image = (sum_img_array / count).astype(np.uint16)
averaged_image_rounded(sum, n) ==
    [i \in 1..Len(sum) |-> ((2 * sum[i] + n) \div (2 * n)) % 65536]
averaged_image(sum, n) ==
    [i \in 1..Len(sum) |-> (sum[i] \div n) % 65536]

\* year, month, day, hour, minute = map(int, [minute_key[:4], ...])
KeyYear(k)   == k[1] \div 10000
KeyMonth(k)  == (k[1] \div 100) % 100
KeyDay(k)    == k[1] % 100
KeyHour(k)   == k[2] \div 100
KeyMinute(k) == k[2] % 100

\* save_folder / f"{device_name}-{year:04d}{month:02d}{day:02d}-{hour:02d}{minute:02d}00.png"
averaged_image_path_hourly(device_name, k) ==
    <<KeyYear(k), KeyMonth(k), KeyDay(k), device_name,
      KeyYear(k) * 10000 + KeyMonth(k) * 100 + KeyDay(k),
      KeyHour(k) * 10000>>
averaged_image_path(device_name, k) ==
    <<KeyYear(k), KeyMonth(k), KeyDay(k), device_name,
      KeyYear(k) * 10000 + KeyMonth(k) * 100 + KeyDay(k),
      KeyHour(k) * 10000 + KeyMinute(k) * 100>>

AllowList == {"Exposure Time", "Date/Time", "Temperature", "Binning", "Note"}

RECURSIVE AllowListed(_)
AllowListed(info) ==
    IF info = <<>> THEN <<>>
    ELSE IF Head(info)[1] \in AllowList
         THEN <<Head(info)>> \o AllowListed(Tail(info))
         ELSE AllowListed(Tail(info))

\* metadata.get('Note', '')
GetNote(info) ==
    IF \E i \in 1..Len(info) : info[i][1] = "Note"
    THEN info[CHOOSE i \in 1..Len(info) : info[i][1] = "Note"][2]
    ELSE <<>>

AverageNote == <<"1-minute", "average", "image.">>

\* the text chunks added to pnginfo, in order
BuildPngInfo(md) ==
    IF md.some /\ md.info # <<>>
    THEN AllowListed(md.info) \o << <<"Note", AverageNote \o GetNote(md.info)>> >>
    ELSE << <<"Note", AverageNote>> >>

\* if count > 0:
HasFrames_always(n) == TRUE
HasFrames(n) == n > 0

(***************************************************************************)
(* Row-position resolution of the RGB column makers.                       *)
(* The code computes in float64; the model computes in fixed point:        *)
(* wavelengths and c0 in 0.1 A, c1 in 1e-4, c2 in 1e-7, the discriminant   *)
(* in 1e-8, its square root in 1e-4, row positions in 1/100 row.  Every    *)
(* operation rounds to the nearest unit; the last bit of the result is     *)
(* left open (fp_error), as a float64 result lies either side of the       *)
(* exact value.                                                            *)
(***************************************************************************)
\* parameters.py: [4217.273360, 2.565182, 0.000170] and
\* [4088.509, 2.673936, 1.376154e-4]
miss1_wavelength_coeffs == <<42173, 25652, 1700>>
miss2_wavelength_coeffs == <<40885, 26739, 1376>>

\* Two further settings of the configurable coefficients: a strongly curved
\* fit [4600, 0.5, 0.0005] and a fit that starts late [4300, 2.5, 0.0002].
steep_wavelength_coeffs == <<46000, 5000, 5000>>
late_wavelength_coeffs == <<43000, 25000, 2000>>

DeviceCoeffs == {miss1_wavelength_coeffs, miss2_wavelength_coeffs}
AllCoeffs == DeviceCoeffs \cup {steep_wavelength_coeffs, late_wavelength_coeffs}

\* emission_wavelengths = [6300, 5577, 4278]
emission_wavelengths == <<63000, 55770, 42780>>

\* max_pixel_value = spectro_data.shape[0] - 1, for frames of 520 and of
\* 1040 rows
MaxPixelValues == {519, 1039}
BinYs == {1, 2}
FpErrors == {-1, 0, 1}

None == [some |-> FALSE, v |-> 0]
Some(x) == [some |-> TRUE, v |-> x]

\* a / b rounded to the nearest integer, b > 0
RoundDiv(a, b) ==
    LET q == a \div b
    IN IF 2 * (a % b) >= b THEN q + 1 ELSE q

RECURSIVE isqrt_search(_, _, _)
isqrt_search(n, lo, hi) ==
    IF lo = hi THEN lo
    ELSE LET mid == (lo + hi + 1) \div 2
         IN IF mid * mid <= n THEN isqrt_search(n, mid, hi)
            ELSE isqrt_search(n, lo, mid - 1)

\* np.sqrt of a non-negative number (1e-8 units in, 1e-4 units out)
np_sqrt(n) ==
    LET s == isqrt_search(n, 0, 46340)
    IN IF n - s * s > s THEN s + 1 ELSE s

\* Spectrogram_Processor: coeffs[0] + coeffs[1] * p + coeffs[2] * p ** 2
calculate_wavelength_linear(p, coeffs) ==
    coeffs[1] + RoundDiv(coeffs[2] * p, 1000)
calculate_wavelength(p, coeffs) ==
    coeffs[1] + RoundDiv(coeffs[2] * p, 1000) + RoundDiv(coeffs[3] * p * p, 1000000)

\* else: print(...); return None
OutOfRange_clamp(binned, max_pixel_value) ==
    Some(IF binned < 0 THEN 0 ELSE max_pixel_value * 100)
OutOfRange(binned, max_pixel_value) == None

\* if 0 <= binned_pixel_position <= max_pixel_value: return it
RangeChecked(binned, max_pixel_value) ==
    IF 0 <= binned /\ binned <= max_pixel_value * 100
    THEN Some(binned)
    ELSE OutOfRange(binned, max_pixel_value)

\* RGB_Column_Maker_Past5Minutes: the quadratic's discriminant and, when it
\* is not negative, (-c1 + sqrt(discriminant)) / (2 c2) / binY
discriminant_live(wavelength, coeffs) ==
    coeffs[2] * coeffs[2] - 4 * coeffs[3] * (coeffs[1] - wavelength)

binned_pixel_position_live(wavelength, coeffs, binY, fp_error) ==
    LET sqrt_discriminant == np_sqrt(discriminant_live(wavelength, coeffs))
        pixel_position == RoundDiv((sqrt_discriminant - coeffs[2]) * 100000,
                                   2 * coeffs[3])
    IN RoundDiv(pixel_position, binY) + fp_error

calculate_pixel_position_live(wavelength, coeffs, max_pixel_value, binY, fp_error) ==
    IF discriminant_live(wavelength, coeffs) < 0 THEN None
    ELSE RangeChecked(binned_pixel_position_live(wavelength, coeffs, binY, fp_error),
                      max_pixel_value)

\* RGB_Column_Maker_Ask_Date:
\* (c1 + 2078 c2 - sqrt(c1**2 - 4 c0 c2 + 4 c2 wavelength)) / (2 c2) / binY;
\* the square root of a negative number is nan, which fails the range test.
radicand_date(wavelength, coeffs) ==
    coeffs[2] * coeffs[2] - 4 * coeffs[1] * coeffs[3] + 4 * coeffs[3] * wavelength

binned_pixel_position_date(wavelength, coeffs, binY, fp_error) ==
    LET root == np_sqrt(radicand_date(wavelength, coeffs))
        pixel_position ==
            RoundDiv((coeffs[2] * 1000 + 2078 * coeffs[3] - root * 1000) * 100,
                     2 * coeffs[3])
    IN RoundDiv(pixel_position, binY) + fp_error

calculate_pixel_position_date(wavelength, coeffs, max_pixel_value, binY, fp_error) ==
    IF radicand_date(wavelength, coeffs) < 0 THEN None
    ELSE RangeChecked(binned_pixel_position_date(wavelength, coeffs, binY, fp_error),
                      max_pixel_value)

\* int(round(x)): Python rounds a tie to the even integer
PyRound(x) ==
    LET q == x \div 100
        r == x % 100
    IN IF r > 50 \/ (r = 50 /\ q % 2 = 1) THEN q + 1 ELSE q

\* create_rgb_columns of the live maker: the three rows, the skip when one
\* is None, then row = max_pixel_value - int(round(row))
resolve_rows_live(coeffs, max_pixel_value, binY, errs) ==
    LET rows == [i \in 1..3 |->
                    calculate_pixel_position_live(emission_wavelengths[i], coeffs,
                                                  max_pixel_value, binY, errs[i])]
    IN [rows |-> rows,
        skipped |-> \E i \in 1..3 : ~rows[i].some,
        finals |-> IF \E i \in 1..3 : ~rows[i].some THEN <<>>
                   ELSE [i \in 1..3 |-> max_pixel_value - PyRound(rows[i].v)]]

\* process_images of the by-date maker: row = int(round(row))
resolve_rows_date(coeffs, max_pixel_value, binY, errs) ==
    LET rows == [i \in 1..3 |->
                    calculate_pixel_position_date(emission_wavelengths[i], coeffs,
                                                  max_pixel_value, binY, errs[i])]
    IN [rows |-> rows,
        skipped |-> \E i \in 1..3 : ~rows[i].some,
        finals |-> IF \E i \in 1..3 : ~rows[i].some THEN <<>>
                   ELSE [i \in 1..3 |-> PyRound(rows[i].v)]]

(***************************************************************************)
(* Row-position resolution as a state machine: cal holds the inputs of an  *)
(* evaluation and, once it is made, its results.                           *)
(***************************************************************************)
CalInputs(coeffs, max, binY, errs, p) ==
    [op |-> "none", coeffs |-> coeffs, max_pixel_value |-> max, binY |-> binY,
     errs |-> errs, p |-> p, wavelength |-> 0, row |-> None,
     rows |-> <<>>, skipped |-> FALSE, finals |-> <<>>]

CalIdle == cal = CalInputs(miss2_wavelength_coeffs, 1039, 1, <<0, 0, 0>>, 0)

\* Either a frame whose three emission lines are to be resolved, or a pixel
\* row of a device to be taken to its wavelength and back.
CalInit ==
    \/ \E coeffs \in AllCoeffs, max \in MaxPixelValues, binY \in BinYs,
          errs \in [1..3 -> FpErrors] :
             cal = CalInputs(coeffs, max, binY, errs, 0)
    \/ \E coeffs \in DeviceCoeffs, max \in MaxPixelValues, e \in FpErrors :
          \E p \in 0..max :
             cal = CalInputs(coeffs, max, 1, <<e, e, e>>, p)

\* A pixel row of a device is converted to its wavelength and back by the
\* live maker's calculate_pixel_position, binning factor 1.
RoundTripLive ==
    /\ cal.op = "none"
    /\ cal.coeffs \in DeviceCoeffs
    /\ cal.binY = 1
    /\ LET w == calculate_wavelength(cal.p, cal.coeffs)
       IN cal' = [cal EXCEPT
                    !.op = "roundtrip_live",
                    !.wavelength = w,
                    !.row = calculate_pixel_position_live(
                                w, cal.coeffs, cal.max_pixel_value, 1, cal.errs[1])]
    /\ UNCHANGED notCalVars

\* The same with the by-date maker's calculate_pixel_position.
RoundTripDate ==
    /\ cal.op = "none"
    /\ cal.coeffs \in DeviceCoeffs
    /\ cal.binY = 1
    /\ LET w == calculate_wavelength(cal.p, cal.coeffs)
       IN cal' = [cal EXCEPT
                    !.op = "roundtrip_date",
                    !.wavelength = w,
                    !.row = calculate_pixel_position_date(
                                w, cal.coeffs, cal.max_pixel_value, 1, cal.errs[1])]
    /\ UNCHANGED notCalVars

\* The live maker resolves the rows of the three emission lines of a frame.
ResolveRowsLive ==
    /\ cal.op = "none"
    /\ cal.p = 0
    /\ LET r == resolve_rows_live(cal.coeffs, cal.max_pixel_value, cal.binY, cal.errs)
       IN cal' = [cal EXCEPT !.op = "rows_live", !.rows = r.rows,
                             !.skipped = r.skipped, !.finals = r.finals]
    /\ UNCHANGED notCalVars

\* The by-date maker does.
ResolveRowsDate ==
    /\ cal.op = "none"
    /\ cal.p = 0
    /\ LET r == resolve_rows_date(cal.coeffs, cal.max_pixel_value, cal.binY, cal.errs)
       IN cal' = [cal EXCEPT !.op = "rows_date", !.rows = r.rows,
                             !.skipped = r.skipped, !.finals = r.finals]
    /\ UNCHANGED notCalVars

(***************************************************************************)
(* RGB column makers: the averaged frames they read.                       *)
(* A frame is its file name (device, minute), whether PIL can verify and   *)
(* load it, the words of its "Binning" text chunk (the text split at 'x';  *)
(* a word is a decimal number or not), and the shape of its pixel array.   *)
(***************************************************************************)
MaxSpectroFiles == 2
column_length == 300
min_rows_for_average == 2
miss1_horizon_limits == <<280, 1140>>
miss2_horizon_limits == <<271, 1116>>

Word(n) == [num |-> TRUE, v |-> n]
NotANumber == [num |-> FALSE, v |-> 0]
BinningTexts ==
    { <<Word(4), Word(1)>>,          \* "4x1", what Capture_Atik.py writes
      <<Word(1), Word(8)>>,          \* "1x8"
      <<NotANumber, Word(1)>>,       \* "ax1"
      <<Word(4)>> }                  \* "4"
NoBinningKey == <<>>

SpectroFrame(device, intact, binning, rows, cols) ==
    [device |-> device, intact |-> intact, binning |-> binning,
     rows |-> rows, cols |-> cols]

\* The frames a spectrogram folder is drawn from: full MISS2 and MISS1
\* frames, a damaged file, unusable and missing Binning texts, a file of
\* another device, a short frame (the 4278 line falls outside it), a narrow
\* frame (nothing inside the horizon limits), a frame whose last row is the
\* 4278 line, and a frame binned by 8 along the wavelength axis.
SpectroFrames ==
    { SpectroFrame("MISS2", TRUE, <<Word(4), Word(1)>>, 1040, 348),
      SpectroFrame("MISS1", TRUE, <<Word(4), Word(1)>>, 1040, 348),
      SpectroFrame("MISS2", FALSE, <<Word(4), Word(1)>>, 1040, 348),
      SpectroFrame("MISS2", TRUE, <<NotANumber, Word(1)>>, 1040, 348),
      SpectroFrame("MISS2", TRUE, <<Word(4)>>, 1040, 348),
      SpectroFrame("MISS2", TRUE, NoBinningKey, 1040, 348),
      SpectroFrame("OTHER", TRUE, <<Word(4), Word(1)>>, 1040, 348),
      SpectroFrame("MISS2", TRUE, <<Word(4), Word(1)>>, 600, 348),
      SpectroFrame("MISS2", TRUE, <<Word(4), Word(1)>>, 1040, 60),
      SpectroFrame("MISS2", TRUE, <<Word(4), Word(1)>>, 970, 348),
      SpectroFrame("MISS2", TRUE, <<Word(1), Word(8)>>, 130, 1392) }

\* os.listdir of the folder: the i-th file is the frame of minute i
SpectroListings ==
    UNION { [1..n -> SpectroFrames] : n \in 0..MaxSpectroFiles }

SpectroName(listing, i) == [device |-> listing[i].device, minute |-> i, ext |-> ".png"]

\* f"{filename_without_ext}_RGB.png"
rgb_output_filename(name) == [name EXCEPT !.ext = "_RGB.png"]

(***************************************************************************)
(* RGB column makers: the functions.                                       *)
(***************************************************************************)
\* binning_info = metadata.get("Binning", "1x1");
\* binX, binY = map(int, binning_info.split('x')); any exception gives
\* (None, None)
extract_binning_from_metadata(binning) ==
    LET words == IF binning = NoBinningKey THEN <<Word(1), Word(1)>> ELSE binning
    IN IF Len(words) = 2 /\ words[1].num /\ words[2].num
       THEN [some |-> TRUE, binX |-> words[1].v, binY |-> words[2].v]
       ELSE [some |-> FALSE, binX |-> 0, binY |-> 0]

\* read_png_with_metadata: zoom(raw_data, (binY, binX)); the shape it returns
zoomed_shape(rows, cols, binX, binY) == <<rows * binY, cols * binX>>

\* zoom(averaged_row, 300 / len(averaged_row)): the zoom factor as a float
\* (here in 1e-4), the last digit open (fp_error)
ZoomScale == 10000
zoom_factor_floor(L) == (column_length \div L) * ZoomScale
zoom_factor(L) == RoundDiv(column_length * ZoomScale, L)

\* scipy.ndimage.zoom: the output has int(round(n * zoom)) samples
zoom_length(L, factor) == RoundDiv(L * factor, ZoomScale)

\* array[:, a:b] of an array with cols columns: the number of columns left
SliceLength(cols, a, b) ==
    LET lo == IF a < cols THEN a ELSE cols
        hi == IF b < cols THEN b ELSE cols
    IN IF hi > lo THEN hi - lo ELSE 0

Max2(a, b) == IF a > b THEN a ELSE b
Min2(a, b) == IF a < b THEN a ELSE b

\* What process_emission_line gives: None, an exception, or a sample
\* (which emission row it was taken at, the rows averaged, its length).
LineNone == [kind |-> "none", row |-> 0, first |-> 0, last |-> 0, len |-> 0]
LineRaise == [kind |-> "raise", row |-> 0, first |-> 0, last |-> 0, len |-> 0]
LineSample(row, start_row, end_row, len) ==
    [kind |-> "sample", row |-> row, first |-> start_row, last |-> end_row - 1,
     len |-> len]

start_row_date(emission_row, binY, num_rows_to_average) ==
    Max2(0, emission_row - (binY \div 2))
start_row_live(emission_row, binY, num_rows_to_average) ==
    Max2(emission_row - (num_rows_to_average \div 2), 0)

\* process_emission_line, the text the two makers share; start_row is where
\* they differ.  An empty crop makes 300 / len(averaged_row) raise.
\* The by-date maker imports zoom from scipy.ndimage (line 13); the live
\* maker calls zoom (lines 81 and 121) but imports it nowhere, so the call
\* raises NameError.
zoom_is_imported_date == TRUE
zoom_is_imported_live == FALSE

process_emission_line(shape, emission_row, binY, pixel_range, start_row, fp_error, zoom_is_imported) ==
    LET num_rows_to_average == Max2(1, 12 \div binY)
        end_row == Min2(shape[1], emission_row + (num_rows_to_average \div 2) + 1)
        available_rows == end_row - start_row
        L == SliceLength(shape[2], pixel_range[1], pixel_range[2])
    IN IF available_rows < min_rows_for_average THEN LineNone
       ELSE IF ~zoom_is_imported \/ L = 0 THEN LineRaise
       ELSE LineSample(emission_row, start_row, end_row,
                       zoom_length(L, zoom_factor(L) + fp_error))

process_emission_line_date(shape, emission_row, binY, pixel_range) ==
    process_emission_line(shape, emission_row, binY, pixel_range,
        start_row_date(emission_row, binY, Max2(1, 12 \div binY)), 0,
        zoom_is_imported_date)

process_emission_line_live(shape, emission_row, binY, pixel_range) ==
    process_emission_line(shape, emission_row, binY, pixel_range,
        start_row_live(emission_row, binY, Max2(1, 12 \div binY)), 0,
        zoom_is_imported_live)

\* What create_rgb_column gives: None, an exception, or the stacked column.
ColumnNone == [kind |-> "none", shape |-> <<>>, channels |-> <<>>,
               flipped |-> FALSE, resampled |-> FALSE]
ColumnRaise == [kind |-> "raise", shape |-> <<>>, channels |-> <<>>,
                flipped |-> FALSE, resampled |-> FALSE]

\* column_RED is None or column_GREEN is None or column_BLUE is None
MissingSample_all(samples) == \A i \in 1..3 : samples[i].kind = "none"
MissingSample(samples) == \E i \in 1..3 : samples[i].kind = "none"

\* np.stack((RED, GREEN, BLUE), axis=-1) of three (300, 1) channels; a
\* channel is named by the emission line it was taken from
stack_channels_bgr(samples) ==
    [kind |-> "column", shape |-> <<samples[1].len, 1, 3>>,
     channels |-> [i \in 1..3 |-> [line |-> emission_wavelengths[4 - i],
                                   sample |-> samples[4 - i]]],
     flipped |-> FALSE, resampled |-> FALSE]
stack_channels(samples) ==
    [kind |-> "column", shape |-> <<samples[1].len, 1, 3>>,
     channels |-> [i \in 1..3 |-> [line |-> emission_wavelengths[i],
                                   sample |-> samples[i]]],
     flipped |-> FALSE, resampled |-> FALSE]

\* create_rgb_column of the by-date maker.  The three samples are taken
\* first, so an exception in one of them leaves the function before the
\* None test; .reshape(300, 1) raises on a sample of another length.
create_rgb_column_date(shape, rows, binY, pixel_range) ==
    LET samples == [i \in 1..3 |->
                      process_emission_line_date(shape, rows[i], binY, pixel_range)]
        true_rgb_image == stack_channels(samples)
    IN IF \E i \in 1..3 : samples[i].kind = "raise" THEN ColumnRaise
       ELSE IF MissingSample(samples) THEN ColumnNone
       ELSE IF \E i \in 1..3 : samples[i].len # column_length THEN ColumnRaise
       ELSE IF true_rgb_image.shape # <<column_length, 1, 3>> THEN ColumnNone
       ELSE true_rgb_image

\* create_rgb_column of the live maker.  process_emission_line raises at
\* zoom; behind it, the first parameter of the three factors is spelled
\* k_lamba_6300, so column_RED * k_lambda_6300 finds no such name and raises
\* NameError as well: the function returns None or raises.
k_lambda_6300_is_bound == FALSE
create_rgb_column_live(shape, rows, binY, pixel_range) ==
    LET samples == [i \in 1..3 |->
                      process_emission_line_live(shape, rows[i], binY, pixel_range)]
        true_rgb_image == stack_channels(samples)
    IN IF \E i \in 1..3 : samples[i].kind = "raise" THEN ColumnRaise
       ELSE IF MissingSample(samples) THEN ColumnNone
       ELSE IF ~k_lambda_6300_is_bound THEN ColumnRaise
       ELSE IF \E i \in 1..3 : samples[i].len # column_length THEN ColumnRaise
       ELSE IF true_rgb_image.shape # <<column_length, 1, 3>> THEN ColumnNone
       ELSE [true_rgb_image EXCEPT !.flipped = TRUE]

\* Image.fromarray(column).resize((width, height)): the array of the result
pil_resize(column, width, height) ==
    [column EXCEPT !.shape = <<height, width, 3>>,
                   !.resampled = (column.shape # <<height, width, 3>>)]

horizon_limits(device) ==
    IF device = "MISS1" THEN miss1_horizon_limits ELSE miss2_horizon_limits
wavelength_coeffs(device) ==
    IF device = "MISS1" THEN miss1_wavelength_coeffs ELSE miss2_wavelength_coeffs

\* One turn of the loop of create_rgb_columns_for_date: what happens to the
\* file (outcome), and the file written, if one is.
FileResult(name, outcome, column) == [name |-> name, outcome |-> outcome, column |-> column]

process_file_date(listing, i) ==
    LET f == listing[i]
        name == SpectroName(listing, i)
        bin == extract_binning_from_metadata(f.binning)
        shape == zoomed_shape(f.rows, f.cols, bin.binX, bin.binY)
        max_pixel_value == shape[1] - 1
        r == resolve_rows_date(wavelength_coeffs(f.device), max_pixel_value,
                               bin.binY, <<0, 0, 0>>)
        RGB_image == create_rgb_column_date(shape, r.finals, bin.binY,
                                            horizon_limits(f.device))
    IN IF ~f.intact THEN FileResult(name, "corrupted", ColumnNone)
       ELSE IF ~bin.some THEN FileResult(name, "no_binning", ColumnNone)
       ELSE IF f.device \notin {"MISS1", "MISS2"}
            THEN FileResult(name, "no_device", ColumnNone)
       ELSE IF r.skipped THEN FileResult(name, "no_row", ColumnNone)
       ELSE IF RGB_image.kind = "raise" THEN FileResult(name, "failed", ColumnNone)
       ELSE IF RGB_image.kind = "none" THEN FileResult(name, "no_column", ColumnNone)
       ELSE FileResult(name, "saved", pil_resize(RGB_image, 1, column_length))

\* create_rgb_column of the live maker, called as create_rgb_columns calls
\* it, on a frame whose binning, device and rows are found.
call_create_rgb_column_live(listing, i) ==
    LET f == listing[i]
        name == SpectroName(listing, i)
        bin == extract_binning_from_metadata(f.binning)
        shape == zoomed_shape(f.rows, f.cols, bin.binX, bin.binY)
        max_pixel_value == shape[1] - 1
        r == resolve_rows_live(wavelength_coeffs(f.device), max_pixel_value,
                               bin.binY, <<0, 0, 0>>)
        RGB_image == create_rgb_column_live(shape, r.finals, bin.binY,
                                            horizon_limits(f.device))
    IN IF ~f.intact \/ ~bin.some \/ f.device \notin {"MISS1", "MISS2"} \/ r.skipped
       THEN FileResult(name, "not_called", ColumnNone)
       ELSE IF RGB_image.kind = "raise" THEN FileResult(name, "failed", ColumnNone)
       ELSE IF RGB_image.kind = "none" THEN FileResult(name, "no_column", ColumnNone)
       ELSE FileResult(name, "column", RGB_image)

(***************************************************************************)
(* The RGB column maker as a state machine.                                *)
(***************************************************************************)
spectro_path_dir == "Averaged_PNG/date"
output_folder == "RGB_columns/date"

RgbIdle ==
    /\ spectroFiles = <<>>
    /\ rgb_pc = "idle"
    /\ rgb_i = 0
    /\ rgbDirs = {}
    /\ rgbOut = {}
    /\ rgbLog = <<>>

\* A folder with files in it exists; an empty one may not exist yet.
RgbInit ==
    /\ spectroFiles \in SpectroListings
    /\ rgb_pc \in {"date_start", "live_call"}
    /\ rgb_i = 1
    /\ rgbDirs \in {{}, {spectro_path_dir}}
    /\ spectroFiles # <<>> => spectro_path_dir \in rgbDirs
    /\ rgbOut = {}
    /\ rgbLog = <<>>

\* create_rgb_columns_for_date up to the loop: both directories are made,
\* the folder is listed, and an empty listing ends the pass
DateListFiles ==
    /\ rgb_pc = "date_start"
    /\ rgbDirs' = rgbDirs \cup {spectro_path_dir, output_folder}
    /\ rgb_pc' = IF spectroFiles = <<>> THEN "done" ELSE "date_loop"
    /\ UNCHANGED <<spectroFiles, rgb_i, rgbOut, rgbLog>>
    /\ UNCHANGED notRgbVars

\* continue, and except inside the for loop: whatever happened to a file,
\* the loop goes on with the next one and ends after the last
after_file_abort(outcome, i, n) ==
    IF i = n \/ outcome \in {"no_row", "no_column", "failed"} THEN "done" ELSE "date_loop"
after_file(outcome, i, n) == IF i = n THEN "done" ELSE "date_loop"

\* one turn of the loop, from verify_image_integrity to save
DateProcessFile ==
    /\ rgb_pc = "date_loop"
    /\ rgb_i <= Len(spectroFiles)
    /\ LET res == process_file_date(spectroFiles, rgb_i)
       IN /\ rgbLog' = Append(rgbLog, [name |-> res.name, outcome |-> res.outcome])
          /\ rgbOut' = IF res.outcome = "saved"
                       THEN { o \in rgbOut : o.name # rgb_output_filename(res.name) }
                            \cup {[name |-> rgb_output_filename(res.name),
                                   image |-> res.column]}
                       ELSE rgbOut
          /\ rgb_pc' = after_file(res.outcome, rgb_i, Len(spectroFiles))
    /\ rgb_i' = rgb_i + 1
    /\ UNCHANGED <<spectroFiles, rgbDirs>>
    /\ UNCHANGED notRgbVars

\* create_rgb_column of the live maker applied to the next frame
LiveCreateRgbColumn ==
    /\ rgb_pc = "live_call"
    /\ rgb_i <= Len(spectroFiles)
    /\ LET res == call_create_rgb_column_live(spectroFiles, rgb_i)
       IN rgbLog' = Append(rgbLog, [name |-> res.name, outcome |-> res.outcome])
    /\ rgb_i' = rgb_i + 1
    /\ UNCHANGED <<spectroFiles, rgb_pc, rgbDirs, rgbOut>>
    /\ UNCHANGED notRgbVars

(***************************************************************************)
(* One emission line and one channel: process_emission_line and            *)
(* scale_channel applied to arguments of their own.  A sample is a short   *)
(* list of integers standing for the float values; the float arithmetic    *)
(* of scale_channel is exact at the minimum (0 / range) and at the maximum *)
(* (range / range * 255) and otherwise leaves the last digit open.         *)
(***************************************************************************)
MaxProfileLen == 845
MaxSampleLen == 3
SampleValues == {-2, 0, 1, 3}
ScaleUnit == 1000
LineBinYs == {1, 2, 8}
Samples == UNION { [1..n -> SampleValues] : n \in 1..MaxSampleLen }

SeqMin(s) == CHOOSE x \in Range(s) : \A y \in Range(s) : x <= y
SeqMax(s) == CHOOSE x \in Range(s) : \A y \in Range(s) : x >= y

\* np.clip(v, 0, 255)
np_clip(v) == IF v < 0 THEN 0 ELSE IF v > 255 THEN 255 ELSE v

\* ((channel_data - min_val) / range_val) * 255 as a float, then .astype(np.uint8)
scaled_value_raw(x, min_val, range_val, fp_error) ==
    IF x = 0 THEN 0
    ELSE IF x = range_val THEN 255
    ELSE np_clip((((255 * ScaleUnit * x) \div range_val) + fp_error) \div ScaleUnit)
scaled_value(x, min_val, range_val, fp_error) ==
    IF x = min_val THEN 0
    ELSE IF x - min_val = range_val THEN 255
    ELSE np_clip((((255 * ScaleUnit * (x - min_val)) \div range_val) + fp_error)
                 \div ScaleUnit)

\* scale_channel, the same in both makers (scale_factor is 1 in the live one)
scale_channel(channel_data, fp_error) ==
    LET min_val == SeqMin(channel_data)
        max_val == SeqMax(channel_data)
        range_val == max_val - min_val
    IN IF range_val # 0
       THEN [i \in 1..Len(channel_data) |->
                scaled_value(channel_data[i], min_val, range_val, fp_error)]
       ELSE [i \in 1..Len(channel_data) |-> 0]

ChannelRaise == [kind |-> "raise", values |-> <<>>]
Channel(values) == [kind |-> "channel", values |-> values]

\* create_rgb_column of the by-date maker, from a sample to its channel
normalise_date(sample, fp_error) == Channel(scale_channel(sample, fp_error))

\* create_rgb_column of the live maker, from a sample to its channel: the
\* sample is first multiplied by its k_lambda, whose name is not bound
normalise_live(sample, k_lambda, fp_error) ==
    IF ~k_lambda_6300_is_bound THEN ChannelRaise
    ELSE Channel(scale_channel([i \in 1..Len(sample) |-> sample[i] * k_lambda], fp_error))

NoLine == [kind |-> "none", row |-> 0, first |-> 0, last |-> 0, len |-> 0]
ChanInputs(what, device, L, binY, sample, k_lambda, fp_error) ==
    [op |-> "none", what |-> what, device |-> device, L |-> L, binY |-> binY,
     sample |-> sample, k_lambda |-> k_lambda, fp_error |-> fp_error,
     line |-> NoLine, channel |-> ChannelRaise]

ChanIdle == chan = ChanInputs("line", "MISS2", 0, 1, <<0>>, 1, 0)

\* Either a frame for process_emission_line, whose crop between the horizon
\* limits has L columns, or a sample for scale_channel.
ChanInit ==
    \/ \E device \in {"MISS1", "MISS2"}, L \in 0..MaxProfileLen, binY \in LineBinYs,
          e \in FpErrors :
          chan = ChanInputs("line", device, L, binY, <<0>>, 1, e)
    \/ \E sample \in Samples, k \in {-1, 1}, e \in {-1, 0} :
          chan = ChanInputs("sample", "MISS2", 0, 1, sample, k, e)

frame_rows == 1040
line_row == 500
ChanShape == <<frame_rows, horizon_limits(chan.device)[1] + chan.L>>

ProcessEmissionLineDate ==
    /\ chan.op = "none" /\ chan.what = "line"
    /\ chan' = [chan EXCEPT !.op = "line_date",
                  !.line = process_emission_line(ChanShape, line_row, chan.binY,
                              horizon_limits(chan.device),
                              start_row_date(line_row, chan.binY, Max2(1, 12 \div chan.binY)),
                              chan.fp_error, zoom_is_imported_date)]
    /\ UNCHANGED notChanVars

ProcessEmissionLineLive ==
    /\ chan.op = "none" /\ chan.what = "line"
    /\ chan' = [chan EXCEPT !.op = "line_live",
                  !.line = process_emission_line(ChanShape, line_row, chan.binY,
                              horizon_limits(chan.device),
                              start_row_live(line_row, chan.binY, Max2(1, 12 \div chan.binY)),
                              chan.fp_error, zoom_is_imported_live)]
    /\ UNCHANGED notChanVars

NormaliseDate ==
    /\ chan.op = "none" /\ chan.what = "sample"
    /\ chan' = [chan EXCEPT !.op = "normalise_date",
                            !.channel = normalise_date(chan.sample, chan.fp_error)]
    /\ UNCHANGED notChanVars

NormaliseLive ==
    /\ chan.op = "none" /\ chan.what = "sample"
    /\ chan' = [chan EXCEPT !.op = "normalise_live",
                            !.channel = normalise_live(chan.sample, chan.k_lambda,
                                                       chan.fp_error)]
    /\ UNCHANGED notChanVars

(***************************************************************************)
(* The scripts that ask for a date.  The text typed is a list of           *)
(* characters; datetime.strptime is the regular expression CPython builds  *)
(* from the format (%Y is \d\d\d\d, %m is 1[0-2]|0[1-9]|[1-9], %d is        *)
(* 3[0-1]|[1-2]\d|0[1-9]|[1-9]| [1-9]), matched at the start of the text,   *)
(* then the test that no text remains, then the calendar test.             *)
(***************************************************************************)
DigitChars == {"0", "1", "2", "3", "4", "5", "6", "7", "8", "9"}
NonZeroChars == DigitChars \ {"0"}
DigitValue(c) ==
    CASE c = "0" -> 0 [] c = "1" -> 1 [] c = "2" -> 2 [] c = "3" -> 3
      [] c = "4" -> 4 [] c = "5" -> 5 [] c = "6" -> 6 [] c = "7" -> 7
      [] c = "8" -> 8 [] c = "9" -> 9 [] OTHER -> 0
NumberValue(t, p, n) ==
    IF n = 1 THEN DigitValue(t[p])
    ELSE IF n = 2 THEN 10 * DigitValue(t[p]) + DigitValue(t[p + 1])
    ELSE 1000 * DigitValue(t[p]) + 100 * DigitValue(t[p + 1])
         + 10 * DigitValue(t[p + 2]) + DigitValue(t[p + 3])

YearTexts == { <<"2", "0", "2", "4">>, <<"2", "0", "2", "3">>, <<"2", "4">> }
MonthTexts == { <<"0", "6">>, <<"6">>, <<"0", "2">>, <<"1", "3">> }
DayTexts == { <<"0", "1">>, <<"1">>, <<"3", "0">>, <<"3", "2">> }
Separators == { <<"/">>, <<"-">>, <<>> }
Trailers == { <<>>, <<" ">> }
TypedTexts ==
    { y \o s \o m \o s \o d \o w :
        y \in YearTexts, s \in Separators, m \in MonthTexts, d \in DayTexts,
        w \in Trailers }

\* str.strip()
RECURSIVE strip(_)
strip(t) ==
    IF t = <<>> THEN t
    ELSE IF t[1] = " " THEN strip(Tail(t))
    ELSE IF t[Len(t)] = " " THEN strip(SubSeq(t, 1, Len(t) - 1))
    ELSE t

\* t[a:b] of Python, a and b counted from 0
PySlice(t, a, b) ==
    LET hi == IF b < Len(t) THEN b ELSE Len(t)
    IN IF a >= hi THEN <<>> ELSE SubSeq(t, a + 1, hi)

\* str.replace('/', '')
remove_slashes(t) == SelectSeq(t, LAMBDA c : c # "/")

MatchYear(t) == Len(t) >= 4 /\ \A i \in 1..4 : t[i] \in DigitChars
MatchMonth(t, p, n) ==
    /\ p + n - 1 <= Len(t)
    /\ IF n = 2
       THEN \/ t[p] = "1" /\ t[p + 1] \in {"0", "1", "2"}
            \/ t[p] = "0" /\ t[p + 1] \in NonZeroChars
       ELSE t[p] \in NonZeroChars
MatchDay(t, p, n) ==
    /\ p + n - 1 <= Len(t)
    /\ IF n = 2
       THEN \/ t[p] = "3" /\ t[p + 1] \in {"0", "1"}
            \/ t[p] \in {"1", "2"} /\ t[p + 1] \in DigitChars
            \/ t[p] = "0" /\ t[p + 1] \in NonZeroChars
            \/ t[p] = " " /\ t[p + 1] \in NonZeroChars
       ELSE t[p] \in NonZeroChars
MatchLiteral(t, p, sep) == sep = <<>> \/ (p <= Len(t) /\ t[p] = sep[1])

IsLeap(y) == (y % 4 = 0 /\ y % 100 # 0) \/ y % 400 = 0
DaysIn(y, m) ==
    IF m = 2 THEN (IF IsLeap(y) THEN 29 ELSE 28)
    ELSE IF m \in {4, 6, 9, 11} THEN 30 ELSE 31

ValueError == [ok |-> FALSE, y |-> 0, m |-> 0, d |-> 0]
ParsedDate(y, m, d) == [ok |-> TRUE, y |-> y, m |-> m, d |-> d]

\* the widths of %m and %d in the order the expression tries them
FieldWidths == << <<2, 2>>, <<2, 1>>, <<1, 2>>, <<1, 1>> >>

\* strptime that takes a two-digit month and day only
strptime_strict(t, sep) ==
    LET n == Len(sep)
    IN IF /\ Len(t) = 8 + 2 * n
          /\ MatchYear(t)
          /\ MatchLiteral(t, 5, sep)
          /\ MatchMonth(t, 5 + n, 2) /\ t[5 + n] \in DigitChars
          /\ MatchLiteral(t, 7 + n, sep)
          /\ MatchDay(t, 7 + 2 * n, 2) /\ t[7 + 2 * n] \in DigitChars
          /\ NumberValue(t, 7 + 2 * n, 2) <= DaysIn(NumberValue(t, 1, 4),
                                                    NumberValue(t, 5 + n, 2))
       THEN ParsedDate(NumberValue(t, 1, 4), NumberValue(t, 5 + n, 2),
                       NumberValue(t, 7 + 2 * n, 2))
       ELSE ValueError

\* datetime.strptime(t, "%Y" sep "%m" sep "%d")
strptime(t, sep) ==
    LET n == Len(sep)
        Fits(w) == /\ MatchYear(t)
                   /\ MatchLiteral(t, 5, sep)
                   /\ MatchMonth(t, 5 + n, w[1])
                   /\ MatchLiteral(t, 5 + n + w[1], sep)
                   /\ MatchDay(t, 5 + 2 * n + w[1], w[2])
        found == { k \in 1..Len(FieldWidths) : Fits(FieldWidths[k]) }
        w == FieldWidths[CHOOSE k \in found : \A j \in found : k <= j]
        end == 4 + 2 * n + w[1] + w[2]
        y == NumberValue(t, 1, 4)
        m == NumberValue(t, 5 + n, w[1])
        dtxt == 5 + 2 * n + w[1]
        d == IF t[dtxt] = " " THEN DigitValue(t[dtxt + 1])
             ELSE NumberValue(t, dtxt, w[2])
    IN IF found = {} THEN ValueError
       ELSE IF end # Len(t) THEN ValueError
       ELSE IF d > DaysIn(y, m) THEN ValueError
       ELSE ParsedDate(y, m, d)

\* What is on the disk when a script asks: raw frames of one day, and no
\* averaged frames, RGB columns or keograms.
raw_frames_date == ParsedDate(2024, 6, 1)

AskInputs(script, text) ==
    [script |-> script, text |-> text, pc |-> "input", reported |-> "none",
     dirs |-> {}, files |-> {}]
AskIdle == ask = AskInputs("none", <<>>)
AskInit ==
    \E script \in {"average", "rgb", "keogram"}, text \in TypedTexts :
        ask = AskInputs(script, text)

\* os.path.join(base, date_str): the components of the path
SplitSlashes(t) ==
    LET cuts == <<0>> \o SelectSeq([i \in 1..Len(t) |-> IF t[i] = "/" THEN i ELSE 0],
                                   LAMBDA i : i # 0) \o <<Len(t) + 1>>
    IN [k \in 1..(Len(cuts) - 1) |-> PySlice(t, cuts[k], cuts[k + 1] - 1)]

\* Average_png_Maker_Ask_Date.py, lines 133-143: strptime is not inside a
\* try, so a ValueError ends the script with a traceback; otherwise the
\* frames of the day named are averaged and saved under their own date
AverageAskDate ==
    /\ ask.pc = "input" /\ ask.script = "average"
    /\ LET selected_date_obj == strptime(ask.text, <<>>)
       IN ask' = IF ~selected_date_obj.ok
                 THEN [ask EXCEPT !.pc = "done", !.reported = "traceback"]
                 ELSE IF selected_date_obj = raw_frames_date
                 THEN [ask EXCEPT !.pc = "done",
                         !.dirs = {<<"Averaged_PNG", "2024", "06", "01">>},
                         !.files = {<<"Averaged_PNG", "2024", "06", "01",
                                      "MISS2-20240601-120000.png">>}]
                 ELSE [ask EXCEPT !.pc = "done"]
    /\ UNCHANGED notAskVars

\* RGB_Column_Maker_Ask_Date.py, main and create_rgb_columns_for_date with
\* no averaged frames on the disk: ensure_directory_exists makes the two
\* folders of the date typed
RgbAskDate ==
    /\ ask.pc = "input" /\ ask.script = "rgb"
    /\ LET date_str == strip(ask.text)
       IN ask' = IF ~strptime(date_str, <<"/">>).ok
                 THEN [ask EXCEPT !.pc = "done", !.reported = "message"]
                 ELSE [ask EXCEPT !.pc = "done",
                         !.dirs = {<<"Averaged_PNG">> \o SplitSlashes(date_str),
                                   <<"RGB_columns">> \o SplitSlashes(date_str)}]
    /\ UNCHANGED notAskVars

\* Keogram_Maker_Ask_Date.py, main with no RGB columns on the disk: the
\* white keogram is saved under current_date_str[:4], [4:6], [6:8]
KeogramAskDate ==
    /\ ask.pc = "input" /\ ask.script = "keogram"
    /\ LET typed_date == ask.text
           current_date_str == remove_slashes(typed_date)
           current_date_dir == <<"Keograms", PySlice(current_date_str, 0, 4),
                                 PySlice(current_date_str, 4, 6),
                                 PySlice(current_date_str, 6, 8)>>
       IN ask' = IF ~strptime(typed_date, <<"/">>).ok
                 THEN [ask EXCEPT !.pc = "done", !.reported = "message"]
                 ELSE [ask EXCEPT !.pc = "done",
                         !.dirs = {current_date_dir},
                         !.files = {current_date_dir
                                    \o <<<<"MISS2-Keogram-">> \o current_date_str
                                         \o <<".png">>>>}]
    /\ UNCHANGED notAskVars

(***************************************************************************)
(* The orchestrator (Real_Time_Miss_Data_Processor.py) and the stage        *)
(* processes it starts.  A stage process is a single pass of its script;    *)
(* a save writes the file in place, so the file is partial from the first   *)
(* byte to the last.  The RGB column maker of the live pipeline does not    *)
(* compile, so its process ends as soon as it is started.                   *)
(***************************************************************************)
MaxCycles == 2

\* lines 63-69 and 86-92: the scripts in the order they are started
Scripts_keogram_first ==
    <<"Keogram_Maker", "Average_png_maker", "Spectrogram_Processor", "RGB_Column_Maker">>
Scripts ==
    <<"Average_png_maker", "Spectrogram_Processor", "RGB_Column_Maker", "Keogram_Maker">>

\* the stages that save a file at an output path, and the file
Saving == {"Average_png_maker", "Keogram_Maker"}
OutputOf(script) ==
    IF script = "Average_png_maker" THEN "averaged frame" ELSE "keogram"
OutputFiles == {"averaged frame", "keogram"}

Process(script, c) == [script |-> script, cycle |-> c, pc |-> "run"]
Alive(p) == p.pc \in {"run", "saving"}

\* process.terminate(), wait, kill: a process that has not exited is ended
\* where it is
terminate(p) == IF Alive(p) THEN [p EXCEPT !.pc = "terminated"] ELSE p
stop_processes_first(ps) ==
    [i \in 1..Len(ps) |-> IF i = 1 THEN terminate(ps[i]) ELSE ps[i]]
stop_processes(ps) == [i \in 1..Len(ps) |-> terminate(ps[i])]

PipeIdle ==
    /\ orch_pc = "idle"
    /\ orch_next = 1
    /\ cycle = 1
    /\ processes = <<>>
    /\ started = <<>>
    /\ pipeDisk = [f \in OutputFiles |-> "absent"]
    /\ stopped = <<>>

\* after signal.signal (line 60), before the first start_subprocess
PipeInit ==
    /\ orch_pc = "starting"
    /\ orch_next = 1
    /\ cycle = 1
    /\ processes = <<>>
    /\ started = <<>>
    /\ pipeDisk \in [OutputFiles -> {"absent", "complete"}]
    /\ stopped = <<>>

\* processes.append(start_subprocess(...)); time.sleep(10)
StartSubprocess ==
    /\ orch_pc = "starting"
    /\ processes' = Append(processes, Process(Scripts[orch_next], cycle))
    /\ started' = Append(started, [cycle |-> cycle, script |-> Scripts[orch_next]])
    /\ orch_next' = orch_next + 1
    /\ orch_pc' = IF orch_next = Len(Scripts) THEN "waiting" ELSE "starting"
    /\ UNCHANGED <<cycle, pipeDisk, stopped>>
    /\ UNCHANGED notPipeVars

\* lines 78-83: 300 s have passed; stop_processes(processes); processes = []
NextCycle ==
    /\ orch_pc = "waiting"
    /\ cycle < MaxCycles
    /\ stopped' = stopped \o stop_processes(processes)
    /\ processes' = <<>>
    /\ cycle' = cycle + 1
    /\ orch_next' = 1
    /\ orch_pc' = "starting"
    /\ UNCHANGED <<started, pipeDisk>>
    /\ UNCHANGED notPipeVars

\* signal_handler: stop_processes(processes); exit(0)
Sigint ==
    /\ orch_pc \in {"starting", "waiting"}
    /\ processes' = stop_processes(processes)
    /\ orch_pc' = "exited"
    /\ UNCHANGED <<orch_next, cycle, started, pipeDisk, stopped>>
    /\ UNCHANGED notPipeVars

\* averaged_img.save(path) / plt.savefig(path): the file is opened at its
\* final path and written
BeginSave ==
    /\ \E i \in 1..Len(processes) :
          /\ processes[i].pc = "run"
          /\ processes[i].script \in Saving
          /\ processes' = [processes EXCEPT ![i].pc = "saving"]
          /\ pipeDisk' = [pipeDisk EXCEPT ![OutputOf(processes[i].script)] = "partial"]
    /\ UNCHANGED <<orch_pc, orch_next, cycle, started, stopped>>
    /\ UNCHANGED notPipeVars

\* the save returns and the script ends
EndSave ==
    /\ \E i \in 1..Len(processes) :
          /\ processes[i].pc = "saving"
          /\ processes' = [processes EXCEPT ![i].pc = "exited"]
          /\ pipeDisk' = [pipeDisk EXCEPT ![OutputOf(processes[i].script)] = "complete"]
    /\ UNCHANGED <<orch_pc, orch_next, cycle, started, stopped>>
    /\ UNCHANGED notPipeVars

\* a pass that saves nothing: the averaging stage without frames, the
\* spectrogram processor (its files are not modelled), and the RGB column
\* maker, which ends with SyntaxError
ExitWithoutSave ==
    /\ \E i \in 1..Len(processes) :
          /\ processes[i].pc = "run"
          /\ processes[i].script # "Keogram_Maker"
          /\ processes' = [processes EXCEPT ![i].pc = "exited"]
    /\ UNCHANGED <<orch_pc, orch_next, cycle, started, pipeDisk, stopped>>
    /\ UNCHANGED notPipeVars

(***************************************************************************)
(* Keogram assembler: files, dates and times.                              *)
(* A column (300 rows of RGB) is copied whole, so its content is an opaque *)
(* value; WHITE is the column np.full fills the raster with.               *)
(***************************************************************************)
num_pixels_y == 300
num_minutes == 24 * 60
spectrograph == "MISS2"

WHITE == "white"

Absent == [exists |-> FALSE, intact |-> FALSE, shape |-> <<0, 0, 0>>, data |-> "none"]
Column(d) == [exists |-> TRUE, intact |-> TRUE, shape |-> <<300, 1, 3>>, data |-> d]
Corrupt == [exists |-> TRUE, intact |-> FALSE, shape |-> <<0, 0, 0>>, data |-> "none"]
Wide == [exists |-> TRUE, intact |-> TRUE, shape |-> <<300, 2, 3>>, data |-> "wide"]

\* What a file is when the integrity check reads it and when it is loaded:
\* the same, unless another process replaces or removes it in between.
RgbFileHistories ==
    { [check |-> x, load |-> x] : x \in {Column("A"), Corrupt, Wide} }
        \cup { [check |-> Column("A"), load |-> y] : y \in {Absent, Column("B")} }

KeoDays == {20240601, 20240602}

\* The minutes of a day that can have a file in the model.
SampleMinutes(d) == IF d = 20240601 THEN {1, 1438} ELSE {0}

\* f"{spectrograph}-{timestamp.strftime('%Y%m%d-%H%M00')}_RGB.png" under
\* RGB_folder/date_str
rgb_file_path(date_str, minute) ==
    <<date_str, spectrograph, date_str, (minute \div 60) * 10000 + (minute % 60) * 100>>

RgbFileCandidates ==
    UNION { { [path |-> rgb_file_path(d, m), check |-> h.check, load |-> h.load]
                : m \in SampleMinutes(d), h \in RgbFileHistories }
            : d \in KeoDays }

FreeCandidates(S) ==
    {x \in RgbFileCandidates : \A f \in S : f.path # x.path}

RECURSIVE FoldersUpTo(_)
FoldersUpTo(n) ==
    IF n = 0 THEN {{}}
    ELSE LET smaller == FoldersUpTo(n - 1)
         IN smaller \cup
            UNION { {S \cup {c} : c \in FreeCandidates(S)} : S \in smaller }

\* The RGB folder: at most MaxRgbFiles files, one per name.
RgbFolders == FoldersUpTo(MaxRgbFiles)

FileAt(path) ==
    IF \E f \in rgbFiles : f.path = path
    THEN CHOOSE f \in rgbFiles : f.path = path
    ELSE [path |-> path, check |-> Absent, load |-> Absent]

\* os.path.exists(today_RGB_dir): the day's folder is there once it has a file
RgbDirExists(date_str) == \E f \in rgbFiles : f.path[1] = date_str

\* Dates are YYYYMMDD within June 2024; instants are minutes since 1 June 00:00.
Instant(date, minute) == (date - 20240601) * num_minutes + minute
DateOf(t) ==
    IF t >= 0 THEN 20240601 + t \div num_minutes ELSE 20240532 + t \div num_minutes

LiveNows ==
    { [date |-> 20240601, minute |-> 2], [date |-> 20240601, minute |-> 1439],
      [date |-> 20240602, minute |-> 3] }
TzOffsets == {-60, 0, 120}
SaveDelays == {0, 1}

(***************************************************************************)
(* Keogram assembler: the functions.                                       *)
(***************************************************************************)
\* np.full((num_pixels_y, num_minutes, 3), 255, dtype=np.uint8)
initialise_keogram == [m \in 0..(num_minutes - 1) |-> WHITE]

\* keogram[:, minute:minute+1, :] = rgb_data.astype(np.uint8)
InsertColumn_tail(keo, minute, rgb_data) ==
    [m \in DOMAIN keo |-> IF m >= minute THEN rgb_data ELSE keo[m]]
InsertColumn(keo, minute, rgb_data) == [keo EXCEPT ![minute] = rgb_data]

\* except Exception as e: print(...)  -- the loop goes on with the next minute
OnColumnError_abort == TRUE
OnColumnError == FALSE

\* One iteration of the minute loop of add_rgb_columns (the same text in
\* both scripts); r.aborted says the loop has been left by an exception.
add_rgb_column(r, date_str, minute) ==
    LET f == FileAt(rgb_file_path(date_str, minute))
    IN IF r.aborted THEN r
       ELSE IF f.check.exists /\ f.check.intact
            THEN IF ~(f.load.exists /\ f.load.intact)
                 THEN [r EXCEPT !.aborted = OnColumnError]
                 ELSE IF f.load.shape # <<num_pixels_y, 1, 3>>
                      THEN r
                      ELSE [r EXCEPT !.keogram = InsertColumn(@, minute, f.load.data)]
            ELSE r

\* No file of the folder has the name of a minute in lo..hi-1: each of
\* these iterations takes the else branch, which only prints.
NoFileIn(date_str, lo, hi) ==
    \A f \in rgbFiles :
        LET m == ((f.path[4] \div 10000) * 60) + ((f.path[4] \div 100) % 100)
        IN ~(lo <= m /\ m < hi /\ f.path = rgb_file_path(date_str, m))

\* for minute in range(lo, hi), in order (split in halves to keep the
\* evaluation shallow)
RECURSIVE minute_loop(_, _, _, _)
minute_loop(r, date_str, lo, hi) ==
    IF r.aborted \/ hi <= lo \/ NoFileIn(date_str, lo, hi) THEN r
    ELSE IF hi = lo + 1 THEN add_rgb_column(r, date_str, lo)
    ELSE LET mid == (lo + hi) \div 2
         IN minute_loop(minute_loop(r, date_str, lo, mid), date_str, mid, hi)

\* Keogram_Maker_Past5Minutes.add_rgb_columns(keogram, date_str, now)
add_rgb_columns_live(keo, date_str, now) ==
    IF ~RgbDirExists(date_str) THEN [keogram |-> keo, aborted |-> FALSE]
    ELSE LET minutes_passed == now.minute
         IN minute_loop([keogram |-> keo, aborted |-> FALSE], date_str, 0, minutes_passed)

\* Keogram_Maker_Ask_Date.add_rgb_columns(keogram, date_str)
add_rgb_columns_date(keo, date_str) ==
    IF ~RgbDirExists(date_str) THEN [keogram |-> keo, aborted |-> FALSE]
    ELSE minute_loop([keogram |-> keo, aborted |-> FALSE], date_str, 0, num_minutes)

\* Keogram_Maker_Past5Minutes.save_keogram_with_axes: the folder and the
\* file name come from datetime.now(), the local time at the save.
keogram_filename_live(local_date) ==
    <<local_date \div 10000, (local_date \div 100) % 100, local_date % 100,
      spectrograph, "keogram", local_date>>

\* Keogram_Maker_Ask_Date.save_keogram_with_axes
keogram_filename_date(current_date_str) ==
    <<current_date_str \div 10000, (current_date_str \div 100) % 100,
      current_date_str % 100, spectrograph, "Keogram", current_date_str>>

\* plt.savefig(keogram_filename): the file is replaced.  The rendered raster
\* is kept as its columns that are not white.
Rendered(keo) == {<<m, keo[m]>> : m \in {x \in DOMAIN keo : keo[x] # WHITE}}

SaveFig(disk, path, keo, title) ==
    {d \in disk : d.path # path}
        \cup {[path |-> path, raster |-> Rendered(keo), title |-> title]}

(***************************************************************************)
(* The keogram scripts as a state machine.                                 *)
(***************************************************************************)
KeoIdle ==
    /\ rgbFiles = {}
    /\ tz_offset = 0
    /\ keo_pc = "idle"
    /\ keo_now = [date |-> 20240601, minute |-> 0]
    /\ date_input = 20240601
    /\ keogram = initialise_keogram
    /\ keoDisk = {}
    /\ keo_script = "live"

KeoInit ==
    /\ rgbFiles \in RgbFolders
    /\ tz_offset \in TzOffsets
    /\ keo_pc = "idle"
    /\ keo_now = [date |-> 20240601, minute |-> 0]
    /\ date_input = 20240601
    /\ keogram = initialise_keogram
    /\ keoDisk = {}
    /\ keo_script \in {"live", "date"}
    /\ keo_script = "date" => tz_offset = 0    \* the by-date script reads no clock

\* Keogram_Maker_Past5Minutes.main up to initialise_keogram: a pass of the
\* live script, started later than the previous one.
LiveMain ==
    /\ keo_script = "live"
    /\ keo_pc = "idle"
    /\ \E now \in LiveNows :
          /\ Instant(now.date, now.minute) > Instant(keo_now.date, keo_now.minute)
          /\ keo_now' = now
          /\ date_input' = now.date
    /\ keogram' = initialise_keogram
    /\ keo_pc' = "live_add"
    /\ UNCHANGED <<rgbFiles, tz_offset, keoDisk, keo_script>>
    /\ UNCHANGED notKeoVars

LiveAddRgbColumns ==
    /\ keo_pc = "live_add"
    /\ LET r == add_rgb_columns_live(keogram, date_input, keo_now)
       IN /\ keogram' = r.keogram
          /\ keo_pc' = IF r.aborted THEN "aborted" ELSE "live_save"
    /\ UNCHANGED <<rgbFiles, tz_offset, keo_now, date_input, keoDisk, keo_script>>
    /\ UNCHANGED notKeoVars

\* save_keogram_with_axes runs some time after main read the clock.
LiveSave ==
    /\ keo_pc = "live_save"
    /\ \E delay \in SaveDelays :
          LET local_now == Instant(keo_now.date, keo_now.minute) + delay + tz_offset
          IN keoDisk' = SaveFig(keoDisk, keogram_filename_live(DateOf(local_now)),
                                keogram, date_input)
    /\ keo_pc' = "idle"
    /\ UNCHANGED <<rgbFiles, tz_offset, keo_now, date_input, keogram, keo_script>>
    /\ UNCHANGED notKeoVars

\* Keogram_Maker_Ask_Date.main up to initialise_keogram, for a valid date.
DateMain ==
    /\ keo_script = "date"
    /\ keo_pc = "idle"
    /\ date_input' \in KeoDays
    /\ keogram' = initialise_keogram
    /\ keo_pc' = "date_add"
    /\ UNCHANGED <<rgbFiles, tz_offset, keo_now, keoDisk, keo_script>>
    /\ UNCHANGED notKeoVars

DateAddRgbColumns ==
    /\ keo_pc = "date_add"
    /\ LET r == add_rgb_columns_date(keogram, date_input)
       IN /\ keogram' = r.keogram
          /\ keo_pc' = IF r.aborted THEN "aborted" ELSE "date_save"
    /\ UNCHANGED <<rgbFiles, tz_offset, keo_now, date_input, keoDisk, keo_script>>
    /\ UNCHANGED notKeoVars

DateSave ==
    /\ keo_pc = "date_save"
    /\ keoDisk' = SaveFig(keoDisk, keogram_filename_date(date_input),
                          keogram, date_input)
    /\ keo_pc' = "idle"
    /\ UNCHANGED <<rgbFiles, tz_offset, keo_now, date_input, keogram, keo_script>>
    /\ UNCHANGED notKeoVars

(***************************************************************************)
(* The live pipeline in time.  The clock counts the seconds since          *)
(* 1 June 2024 00:00:00 UTC.  Capture_Atik.py starts an exposure at every  *)
(* second that is a multiple of imaging_cadence and writes the frame once  *)
(* the exposure is over, under the name of the second the exposure         *)
(* started.  The orchestrator starts Average_png_maker_Past5Minutes.py at  *)
(* its start-up and then once per cycle; every start is a new process,     *)
(* which reads the clock once, walks the raw folder of that day, averages  *)
(* the minutes it found and ends.  RGB_Column_Maker_Past5Minutes.py is     *)
(* started two sleeps later; of it, the module-level state and the day     *)
(* test at the head of create_rgb_columns are followed here.               *)
(***************************************************************************)
MaxPasses == 3              \* averaging passes followed
exposure_duration == 12
imaging_cadence == 15
cycle_seconds == 300        \* current_time - last_execution_time >= 300
sleep_seconds == 10         \* time.sleep(10) after each start_subprocess
five_minutes == 5 * 60      \* datetime.timedelta(minutes=5)
SecondsPerDay == 24 * 60 * 60
SaveLatencies == {0, 1}     \* seconds from the end of the exposure to the file
StopDelays == {0, 1}        \* seconds stop_processes takes before the first start
TailSeconds == 30           \* seconds followed after the last pass has started
History == 60               \* seconds of capture before the orchestrator starts

\* The orchestrator is started shortly before midnight of 1 June.
StartTimes == {86039, 86100, 86379}

NoTime == -1

\* strftime("%Y%m%d") and strftime("%H%M%S") of an instant in June 2024
strftime_Ymd(t) == 20240601 + (t \div SecondsPerDay)
strftime_HMS(t) ==
    LET s == t % SecondsPerDay
    IN (s \div 3600) * 10000 + ((s \div 60) % 60) * 100 + (s % 60)

\* datetime.strptime(f"{date_part}-{time_part}", "%Y%m%d-%H%M%S")
strptime_YmdHMS(date_part, time_part) ==
    (date_part - 20240601) * SecondsPerDay
        + (time_part \div 10000) * 3600 + ((time_part \div 100) % 100) * 60
        + (time_part % 100)

\* now.day
DayOfMonth(t) == strftime_Ymd(t) % 100

\* The frame Capture_Atik.py writes for the exposure started at t: in the
\* folder of that date, named device-date-time.  Its content is one pixel.
CapturedPixel(t) == 100 + (t % 60)
CapturedFrame(t) ==
    [dev |-> spectrograph, date |-> strftime_Ymd(t), time |-> strftime_HMS(t),
     folder |-> strftime_Ymd(t), pixel |-> CapturedPixel(t)]

\* The exposures started in the History seconds before t0 and written by then.
FramesBefore(t0) ==
    { CapturedFrame(t) : t \in { x \in (t0 - History)..t0 :
                                   /\ x % imaging_cadence = 0
                                   /\ x + exposure_duration <= t0 } }
ExposingAt(t0) ==
    LET S == { x \in (t0 - History)..t0 :
                 /\ x % imaging_cadence = 0
                 /\ x + exposure_duration > t0 }
    IN IF S = {} THEN NoTime ELSE CHOOSE x \in S : TRUE

\* time_5_minutes_ago <= image_time <= current_time
InWindow(image_time, current_time) ==
    /\ current_time - five_minutes <= image_time
    /\ image_time <= current_time

\* Average_png_maker_Past5Minutes.average_images, lines 35-63: the files of
\* raw_PNG_folder_today that match the pattern and lie in the window,
\* grouped by minute key
live_images_by_minute(files, current_time) ==
    LET selected ==
          { f \in files :
              /\ f.folder = strftime_Ymd(current_time)
              /\ filename_regex(f)
              /\ InWindow(strptime_YmdHMS(f.date, f.time), current_time) }
    IN { [key |-> k, filepaths |-> { f \in selected : minute_key_of(f) = k }]
           : k \in { minute_key_of(f) : f \in selected } }

RECURSIVE SumOfPixels(_)
SumOfPixels(S) ==
    IF S = {} THEN 0
    ELSE LET f == CHOOSE x \in S : TRUE
         IN f.pixel + SumOfPixels(S \ {f})

\* (sum_img_array / count).astype(np.uint16)
live_averaged_image(S) == (SumOfPixels(S) \div Cardinality(S)) % 65536

\* lines 68-132 for one bucket: the file the pass saves
live_averaged_file(bucket, pass) ==
    [path |-> averaged_image_path("MISS2", bucket.key), key |-> bucket.key,
     image |-> live_averaged_image(bucket.filepaths), members |-> bucket.filepaths,
     pass |-> pass]

\* the keys of a set of buckets as a list, earliest first
RECURSIVE KeysInOrder(_)
KeysInOrder(K) ==
    IF K = {} THEN <<>>
    ELSE LET k == CHOOSE x \in K : \A y \in K : x[1] < y[1] \/ (x[1] = y[1] /\ x[2] <= y[2])
         IN <<k>> \o KeysInOrder(K \ {k})

\* processed_minutes = [] at module level (line 143): each process has its own
live_processed_minutes_kept(previous) == previous
live_processed_minutes(previous) == <<>>

\* RGB_Column_Maker_Past5Minutes.create_rgb_columns, lines 172-175
rgb_day_check(day, images, now) ==
    IF DayOfMonth(now) # day
    THEN [current_day |-> DayOfMonth(now), processed_images |-> {}]
    ELSE [current_day |-> day, processed_images |-> images]

LiveIdle ==
    /\ clock = 0
    /\ exposing = NoTime
    /\ rawLive = {}
    /\ live_pc = "idle"
    /\ live_now = NoTime
    /\ live_buckets = {}
    /\ live_processed = <<>>
    /\ liveDisk = {}
    /\ included = {}
    /\ next_pass = 0
    /\ passes_done = 0
    /\ rgb_live_pc = "off"
    /\ rgb_loaded_at = NoTime
    /\ rgb_now = NoTime
    /\ current_day = 1
    /\ processed_images = {}

LiveInit ==
    /\ clock \in StartTimes
    /\ exposing = ExposingAt(clock)
    /\ rawLive = FramesBefore(clock)
    /\ live_pc = "idle"
    /\ live_now = NoTime
    /\ live_buckets = {}
    /\ live_processed = <<>>
    /\ liveDisk = {}
    /\ included = {}
    /\ next_pass = clock
    /\ passes_done = 0
    /\ rgb_live_pc = "off"
    /\ rgb_loaded_at = NoTime
    /\ rgb_now = NoTime
    /\ current_day = 1
    /\ processed_images = {}

\* the averaging script of the next cycle is due
PassDue == passes_done < MaxPasses /\ live_pc = "idle" /\ clock >= next_pass
\* the RGB script of the last cycle started is due: two sleeps after the
\* averaging script
RgbDue ==
    /\ live_now # NoTime
    /\ rgb_loaded_at < live_now
    /\ clock >= live_now + 2 * sleep_seconds

\* One second passes; Capture_Atik.py starts an exposure if the second is a
\* multiple of the cadence and the camera is free (lines 81-94).
Tick ==
    /\ live_pc = "idle"
    /\ passes_done < MaxPasses \/ clock < live_now + TailSeconds
    /\ ~(PassDue /\ clock >= next_pass + 1)
    /\ ~RgbDue
    /\ ~(rgb_live_pc = "loaded" /\ clock > rgb_loaded_at)
    /\ ~(exposing # NoTime /\ clock >= exposing + exposure_duration + 1)
    /\ clock' = clock + 1
    /\ exposing' = IF exposing = NoTime /\ (clock + 1) % imaging_cadence = 0
                   THEN clock + 1 ELSE exposing
    /\ UNCHANGED <<rawLive, live_pc, live_now, live_buckets, live_processed,
                   liveDisk, included, next_pass, passes_done, rgb_live_pc,
                   rgb_loaded_at, rgb_now, current_day, processed_images>>
    /\ UNCHANGED notLiveVars

\* Capture_Atik.py lines 94-122: the exposure is over, the frame is saved
\* under the time the exposure started.
CaptureSave ==
    /\ exposing # NoTime
    /\ \E latency \in SaveLatencies : clock = exposing + exposure_duration + latency
    /\ rawLive' = rawLive \cup {CapturedFrame(exposing)}
    /\ exposing' = NoTime
    /\ UNCHANGED <<clock, live_pc, live_now, live_buckets, live_processed,
                   liveDisk, included, next_pass, passes_done, rgb_live_pc,
                   rgb_loaded_at, rgb_now, current_day, processed_images>>
    /\ UNCHANGED notLiveVars

\* The orchestrator starts Average_png_maker_Past5Minutes.py (lines 63 and
\* 78-86); the new process reads the clock and walks the folder of the day
\* (average_images, lines 35-63).  The next start is due 300 s after
\* last_execution_time, which the start-up sets after its four sleeps.
LivePassStart ==
    /\ PassDue
    /\ \E delay \in StopDelays : clock = next_pass + delay
    /\ live_now' = clock
    /\ live_processed' = live_processed_minutes(live_processed)
    /\ live_buckets' = live_images_by_minute(rawLive, clock)
    /\ live_pc' = "walked"
    /\ next_pass' = IF passes_done = 0
                    THEN clock + 4 * sleep_seconds + cycle_seconds
                    ELSE next_pass + cycle_seconds
    /\ UNCHANGED <<clock, exposing, rawLive, liveDisk, included, passes_done,
                   rgb_live_pc, rgb_loaded_at, rgb_now, current_day,
                   processed_images>>
    /\ UNCHANGED notLiveVars

\* average_images, lines 68-132, for every bucket found: average, save at
\* the path of the minute, append the key.
LivePassAverage ==
    /\ live_pc = "walked"
    /\ LET written == { live_averaged_file(b, passes_done + 1) : b \in live_buckets }
       IN /\ liveDisk' = { d \in liveDisk : \A w \in written : w.path # d.path }
                            \cup written
          /\ included' = included \cup UNION { b.filepaths : b \in live_buckets }
    /\ live_processed' = live_processed
                            \o KeysInOrder({ b.key : b \in live_buckets })
    /\ passes_done' = passes_done + 1
    /\ live_pc' = "idle"
    /\ UNCHANGED <<clock, exposing, rawLive, live_now, live_buckets, next_pass,
                   rgb_live_pc, rgb_loaded_at, rgb_now, current_day,
                   processed_images>>
    /\ UNCHANGED notLiveVars

\* RGB_Column_Maker_Past5Minutes.py is started: lines 33-34 run at import.
LiveRgbLoad ==
    /\ RgbDue
    /\ rgb_live_pc \in {"off", "checked"}
    /\ rgb_live_pc' = "loaded"
    /\ rgb_loaded_at' = clock
    /\ processed_images' = {}
    /\ current_day' = DayOfMonth(clock)
    /\ UNCHANGED <<clock, exposing, rawLive, live_pc, live_now, live_buckets,
                   live_processed, liveDisk, included, next_pass, passes_done,
                   rgb_now>>
    /\ UNCHANGED notLiveVars

\* create_rgb_columns, lines 166-175: the clock is read and the day test
\* made; nothing below line 175 reads or writes the two globals (the files
\* of the pass are followed by LiveCreateRgbColumn).
LiveRgbDayCheck ==
    /\ rgb_live_pc = "loaded"
    /\ LET r == rgb_day_check(current_day, processed_images, clock)
       IN /\ current_day' = r.current_day
          /\ processed_images' = r.processed_images
    /\ rgb_now' = clock
    /\ rgb_live_pc' = "checked"
    /\ UNCHANGED <<clock, exposing, rawLive, live_pc, live_now, live_buckets,
                   live_processed, liveDisk, included, next_pass, passes_done,
                   rgb_loaded_at>>
    /\ UNCHANGED notLiveVars

(***************************************************************************)
(* The name of one minute through the stages: the raw frame the capture    *)
(* wrote, the averaged frame, the RGB column file, the keogram look-up.    *)
(* A file is [folder, dev, date, time, ext]: folder is the YYYY/MM/DD      *)
(* directory as the number YYYYMMDD, the name is dev-date-time followed by *)
(* ext.                                                                    *)
(***************************************************************************)
\* the devices parameters.py holds coefficients and horizon limits for
DeviceNames == {"MISS1", "MISS2"}
NameDays == {20240601, 20240602}
NameTimes == {1, 59, 120301, 120358, 235900, 235959}
Makers == {"live", "date"}

\* Capture_Atik: f"{device_name}-{timestamp}.png" in the folder of the date
raw_filename(device_name, date, time) ==
    [folder |-> date, dev |-> device_name, date |-> date, time |-> time, ext |-> ".png"]

\* the averaging engine: the file of the minute of a raw frame it matches,
\* named after its own device_name ("MISS2") and the minute key
averaged_file_of(raw) ==
    LET p == averaged_image_path("MISS2", minute_key_of(raw))
    IN [folder |-> p[1] * 10000 + p[2] * 100 + p[3], dev |-> p[4], date |-> p[5],
        time |-> p[6], ext |-> ".png"]

\* os.listdir(spectro_path_dir) of the day the maker runs for, the .png files
matching_files(dir, day) == { f \in dir : f.folder = day /\ f.ext = ".png" }

\* the frame of a name as the RGB makers see it: a full frame of the device
\* the name holds
NamedFrame(f) == <<SpectroFrame(f.dev, TRUE, <<Word(4), Word(1)>>, 1040, 348)>>

\* whether the maker saves a column for the file
maker_saves(maker, f) ==
    IF maker = "date"
    THEN process_file_date(NamedFrame(f), 1).outcome = "saved"
    ELSE call_create_rgb_column_live(NamedFrame(f), 1).outcome = "column"

\* rgb_filename = filename.replace(".png", "_RGB.png") in the output folder
\* of the day the maker runs for
rgb_file_of(f, day) == [f EXCEPT !.folder = day, !.ext = "_RGB.png"]

\* the keogram assembler: f"{spectrograph}-{timestamp:%Y%m%d-%H%M00}_RGB.png"
\* in RGB_folder/date_str
expected_rgb_file(device_name, day, minute) ==
    [folder |-> day, dev |-> device_name, date |-> day,
     time |-> (minute \div 60) * 10000 + (minute % 60) * 100, ext |-> "_RGB.png"]

\* the columns add_rgb_columns fills from a folder
columns_filled(device_name, day, dir) ==
    { minute \in 0..(num_minutes - 1) : expected_rgb_file(device_name, day, minute) \in dir }

NameIdle == names = [pc |-> "off"]

NameInit ==
    names \in { [pc |-> "raw", device_name |-> d, maker |-> mk, day |-> day,
                 raw |-> raw_filename(rd, rday, t), averaged |-> {}, rgb |-> {},
                 keogram |-> {}]
                : d \in DeviceNames, rd \in DeviceNames, mk \in Makers,
                  day \in NameDays, rday \in NameDays, t \in NameTimes }

\* the averaging engine on the raw frame
NameAverage ==
    /\ names.pc = "raw"
    /\ names' = [names EXCEPT !.pc = "averaged",
                    !.averaged = IF filename_regex(names.raw)
                                 THEN {averaged_file_of(names.raw)} ELSE {}]
    /\ UNCHANGED notNameVars

\* the RGB column maker, run for the day
NameRgb ==
    /\ names.pc = "averaged"
    /\ names' = [names EXCEPT !.pc = "columns",
                    !.rgb = { rgb_file_of(f, names.day)
                                : f \in { g \in matching_files(names.averaged, names.day)
                                            : maker_saves(names.maker, g) } }]
    /\ UNCHANGED notNameVars

\* the keogram assembler, run for the day
NameKeogram ==
    /\ names.pc = "columns"
    /\ names' = [names EXCEPT !.pc = "assembled",
                    !.keogram = columns_filled(names.device_name, names.day, names.rgb)]
    /\ UNCHANGED notNameVars

AvgIdle ==
    /\ rawFiles = <<>>
    /\ selected_date = 20240601
    /\ avg_pc = "start"
    /\ images_by_minute = <<>>
    /\ bucket_i = 1
    /\ frame_i = 1
    /\ sum_img_array = NoArray
    /\ count = 0
    /\ metadata = NoMetadata
    /\ processed_minutes = <<>>
    /\ avgDisk = {}
    /\ saves = <<>>
    /\ prevSaves = <<>>
    /\ rerun = FALSE

KeoNext ==
    \/ LiveMain \/ LiveAddRgbColumns \/ LiveSave
    \/ DateMain \/ DateAddRgbColumns \/ DateSave

\* Only the keogram scripts run.
InitKeo == KeoInit /\ AvgIdle /\ CalIdle /\ RgbIdle /\ ChanIdle /\ AskIdle /\ PipeIdle /\ LiveIdle /\ NameIdle

SpecKeo == InitKeo /\ [][KeoNext]_vars

(***************************************************************************)
(* Keogram assembler: properties.                                          *)
(***************************************************************************)
\* The file of minute m of the day being assembled can be inserted: it is
\* there and intact at the integrity check, still loads, and is 300x1x3.
Insertable(f) ==
    /\ f.check.exists /\ f.check.intact
    /\ f.load.exists /\ f.load.intact
    /\ f.load.shape = <<300, 1, 3>>

\* The minutes a pass covers: range(minutes_passed) or range(num_minutes).
Covered ==
    IF keo_pc = "live_save" THEN 0..(keo_now.minute - 1) ELSE 0..(num_minutes - 1)

AfterPass == keo_pc \in {"live_save", "date_save"}

\* Minutes at which an insertion is probed: those of the files of the day
\* being assembled.
ProbeMinutes ==
    { ((f.path[4] \div 10000) * 60) + ((f.path[4] \div 100) % 100)
        : f \in {g \in rgbFiles : g.path[1] = date_input} }

\* C6: inserting the column of minute m changes column m only: on the
\* raster a pass leaves, an insertion at m yields the same raster except at
\* m; and after the pass a column for which nothing was inserted is white.
C6_ColumnIsolation ==
    AfterPass =>
        /\ \A m \in ProbeMinutes :
              LET after == InsertColumn(keogram, m, "C")
              IN /\ DOMAIN after = DOMAIN keogram
                 /\ Rendered(after) =
                       {c \in Rendered(keogram) : c[1] # m} \cup {<<m, "C">>}
        /\ \A c \in Rendered(keogram) :
              /\ c[1] \in Covered
              /\ Insertable(FileAt(rgb_file_path(date_input, c[1])))

\* C6 witness: a pass has inserted a column whose two neighbours are still
\* white, and the folder holds a file of a later minute that was not
\* inserted.
C6_Witness ==
    /\ AfterPass
    /\ keogram[0] = WHITE /\ keogram[1] = "A" /\ keogram[2] = WHITE
    /\ keogram[1438] = WHITE
    /\ FileAt(rgb_file_path(date_input, 1438)).check.exists

\* C7: after a pass over a fresh raster, every covered minute holds the
\* content of its column file if the file is there, passes the integrity
\* check, loads and is 300x1x3, and is white otherwise; no file, whatever
\* its state, aborts the pass.
C7_PassPostcondition ==
    /\ keo_pc # "aborted"
    /\ AfterPass =>
          \A m \in Covered :
             LET f == FileAt(rgb_file_path(date_input, m))
             IN keogram[m] = IF Insertable(f) THEN f.load.data ELSE WHITE

\* C7 witness: a pass met a file that vanished between the integrity check
\* and the load at minute 1, and inserted the column of minute 1438.
C7_Witness ==
    /\ AfterPass
    /\ LET f == FileAt(rgb_file_path(date_input, 1))
       IN f.check.exists /\ f.check.intact /\ ~f.load.exists
    /\ keogram[1] = WHITE
    /\ keogram[1438] # WHITE

\* C8 as stated: a live pass whose current time lies in UTC day D writes
\* only the keogram file keyed to day D, so every file the live script has
\* written holds the raster of the UTC day its name carries, and that
\* raster has only columns of that day.
C8_DayBoundary ==
    keo_script = "live" =>
        \A d \in keoDisk :
           /\ d.path = keogram_filename_live(d.title)
           /\ \A c \in d.raster :
                 \E f \in rgbFiles : /\ f.path = rgb_file_path(d.title, c[1])
                                     /\ f.load.data = c[2]

(***************************************************************************)
(* The averaging script as a state machine.                                *)
(***************************************************************************)
CurBucket == images_by_minute[bucket_i]

AvgInit ==
    /\ rawFiles \in RawListings
    /\ selected_date \in SelectedDates
    /\ avg_pc = "start"
    /\ images_by_minute = <<>>
    /\ bucket_i = 1
    /\ frame_i = 1
    /\ sum_img_array = NoArray
    /\ count = 0
    /\ metadata = NoMetadata
    /\ processed_minutes = <<>>
    /\ avgDisk = {}
    /\ saves = <<>>
    /\ prevSaves = <<>>
    /\ rerun = FALSE

\* Walk the raw folder and group the matching files of the selected date.
Discover ==
    /\ avg_pc = "start"
    /\ images_by_minute' = GroupByMinute(rawFiles, selected_date, <<>>)
    /\ avg_pc' = IF images_by_minute' = <<>> THEN "done" ELSE "bucket"
    /\ UNCHANGED <<rawFiles, selected_date, bucket_i, frame_i, sum_img_array,
                   count, metadata, processed_minutes, avgDisk, saves,
                   prevSaves, rerun>>
    /\ UNCHANGED notAvgVars

\* minute_key not in processed_minutes, negated
AlreadyProcessed_never(key, pm) == FALSE
AlreadyProcessed(key, pm) == key \in Range(pm)

\* One iteration of "for filepath in filepaths", try and except included.
AddFrame ==
    /\ avg_pc = "bucket"
    /\ ~AlreadyProcessed(CurBucket.key, processed_minutes)
    /\ frame_i <= Len(CurBucket.filepaths)
    /\ LET r == TryAddFrame([sum |-> sum_img_array, count |-> count,
                             metadata |-> metadata, raised |-> FALSE],
                            CurBucket.filepaths[frame_i])
       IN /\ sum_img_array' = r.sum
          /\ count' = r.count
          /\ metadata' = r.metadata
          /\ avg_pc' = IF r.raised THEN OnFrameError ELSE "bucket"
    /\ frame_i' = frame_i + 1
    /\ UNCHANGED <<rawFiles, selected_date, images_by_minute, bucket_i,
                   processed_minutes, avgDisk, saves, prevSaves, rerun>>
    /\ UNCHANGED notAvgVars

\* The rest of one iteration of "for minute_key, filepaths in ...": average,
\* save (the save may raise, which is caught), mark the key processed, and
\* set up the accumulator of the next bucket.
FinishBucket ==
    /\ avg_pc = "bucket"
    /\ \/ AlreadyProcessed(CurBucket.key, processed_minutes)
       \/ frame_i > Len(CurBucket.filepaths)
    /\ IF ~AlreadyProcessed(CurBucket.key, processed_minutes) /\ HasFrames(count)
       THEN \E save_ok \in BOOLEAN :
              LET file == [path  |-> averaged_image_path("MISS2", CurBucket.key),
                           image |-> averaged_image(sum_img_array.arr, count),
                           text  |-> BuildPngInfo(metadata)]
              IN /\ saves' = Append(saves,
                                [key |-> CurBucket.key, count |-> count,
                                 file |-> file])
                 /\ avgDisk' = IF save_ok
                               THEN {d \in avgDisk : d.path # file.path} \cup {file}
                               ELSE avgDisk
                 /\ processed_minutes' = Append(processed_minutes, CurBucket.key)
       ELSE UNCHANGED <<saves, avgDisk, processed_minutes>>
    /\ bucket_i' = bucket_i + 1
    /\ frame_i' = 1
    /\ sum_img_array' = NoArray
    /\ count' = 0
    /\ metadata' = NoMetadata
    /\ avg_pc' = IF bucket_i = Len(images_by_minute) THEN "done" ELSE "bucket"
    /\ UNCHANGED <<rawFiles, selected_date, images_by_minute, prevSaves,
                   rerun>>
    /\ UNCHANGED notAvgVars

\* processed_minutes = []
FreshProcessedMinutes == <<>>

\* The script is started again on the same raw folder with the same date: a
\* new process, so the module-level state starts over; the disk stays.
RunAgain ==
    /\ avg_pc = "done"
    /\ avg_pc' = "start"
    /\ images_by_minute' = <<>>
    /\ bucket_i' = 1
    /\ frame_i' = 1
    /\ sum_img_array' = NoArray
    /\ count' = 0
    /\ metadata' = NoMetadata
    /\ processed_minutes' = FreshProcessedMinutes
    /\ prevSaves' = saves
    /\ saves' = <<>>
    /\ rerun' = TRUE
    /\ UNCHANGED <<rawFiles, selected_date, avgDisk>>
    /\ UNCHANGED notAvgVars

AvgNext ==
    Discover \/ AddFrame \/ FinishBucket \/ RunAgain

\* Only the averaging script runs.
InitAvg == AvgInit /\ KeoIdle /\ CalIdle /\ RgbIdle /\ ChanIdle /\ AskIdle /\ PipeIdle /\ LiveIdle /\ NameIdle

SpecAvg == InitAvg /\ [][AvgNext]_vars

\* average_images called with a collection that may already hold a minute
\* key: the collection is the caller's list, passed in as an argument.
AllMinuteKeys == {minute_key_of(n) : n \in FrameNames \cup OtherNames}
CollectionsBefore == {<<>>} \cup {<<k>> : k \in AllMinuteKeys}
AvgCallInit ==
    /\ rawFiles \in RawListings
    /\ selected_date \in SelectedDates
    /\ avg_pc = "start"
    /\ images_by_minute = <<>>
    /\ bucket_i = 1
    /\ frame_i = 1
    /\ sum_img_array = NoArray
    /\ count = 0
    /\ metadata = NoMetadata
    /\ processed_minutes \in CollectionsBefore
    /\ avgDisk = {}
    /\ saves = <<>>
    /\ prevSaves = <<>>
    /\ rerun = FALSE
AvgCallNext == Discover \/ AddFrame \/ FinishBucket
InitAvgCall ==
    AvgCallInit /\ KeoIdle /\ CalIdle /\ RgbIdle /\ ChanIdle /\ AskIdle /\ PipeIdle /\ LiveIdle
        /\ NameIdle
SpecAvgCall == InitAvgCall /\ [][AvgCallNext]_vars

CalNext ==
    RoundTripLive \/ RoundTripDate \/ ResolveRowsLive \/ ResolveRowsDate

\* Only the row-position resolution runs.
InitCal == CalInit /\ AvgIdle /\ KeoIdle /\ RgbIdle /\ ChanIdle /\ AskIdle /\ PipeIdle /\ LiveIdle /\ NameIdle

SpecCal == InitCal /\ [][CalNext]_vars

RgbNext == DateListFiles \/ DateProcessFile \/ LiveCreateRgbColumn
InitRgb == RgbInit /\ AvgIdle /\ KeoIdle /\ CalIdle /\ ChanIdle /\ AskIdle /\ PipeIdle /\ LiveIdle /\ NameIdle
SpecRgb == InitRgb /\ [][RgbNext]_vars

ChanNext ==
    \/ ProcessEmissionLineDate
    \/ ProcessEmissionLineLive
    \/ NormaliseDate
    \/ NormaliseLive
InitChan == ChanInit /\ AvgIdle /\ KeoIdle /\ CalIdle /\ RgbIdle /\ AskIdle /\ PipeIdle /\ LiveIdle /\ NameIdle
SpecChan == InitChan /\ [][ChanNext]_vars

AskNext == AverageAskDate \/ RgbAskDate \/ KeogramAskDate
InitAsk == AskInit /\ AvgIdle /\ KeoIdle /\ CalIdle /\ RgbIdle /\ ChanIdle /\ PipeIdle /\ LiveIdle /\ NameIdle
SpecAsk == InitAsk /\ [][AskNext]_vars

PipeNext ==
    \/ StartSubprocess
    \/ NextCycle
    \/ Sigint
    \/ BeginSave
    \/ EndSave
    \/ ExitWithoutSave
InitPipe == PipeInit /\ AvgIdle /\ KeoIdle /\ CalIdle /\ RgbIdle /\ ChanIdle /\ AskIdle /\ LiveIdle /\ NameIdle
SpecPipe == InitPipe /\ [][PipeNext]_vars

LiveNext ==
    \/ Tick
    \/ CaptureSave
    \/ LivePassStart
    \/ LivePassAverage
    \/ LiveRgbLoad
    \/ LiveRgbDayCheck
InitLive == LiveInit /\ AvgIdle /\ KeoIdle /\ CalIdle /\ RgbIdle /\ ChanIdle /\ AskIdle /\ PipeIdle /\ NameIdle
SpecLive == InitLive /\ [][LiveNext]_vars

NameNext == \/ NameAverage \/ NameRgb \/ NameKeogram
InitName == NameInit /\ AvgIdle /\ KeoIdle /\ CalIdle /\ RgbIdle /\ ChanIdle /\ AskIdle /\ PipeIdle /\ LiveIdle
SpecName == InitName /\ [][NameNext]_vars

(***************************************************************************)
(* Reference notions for the averaging claims, read off the raw folder.    *)
(***************************************************************************)
\* The frames of minute key k: files the engine's pattern and date select.
FramesOfMinute(k) ==
    SelectSeq(rawFiles, LAMBDA f : /\ filename_regex(f)
                                   /\ f.date = selected_date
                                   /\ minute_key_of(f) = k)

Decoded(fs) == SelectSeq(fs, LAMBDA f : f.decodes)

\* The frames that can be added: decoded, with the shape of the first one.
Contributing(fs) ==
    LET d == Decoded(fs)
    IN SelectSeq(d, LAMBDA f : Len(f.pixels) = Len(d[1].pixels))

SameShape(fs) ==
    \A i, j \in 1..Len(fs) : Len(fs[i].pixels) = Len(fs[j].pixels)

RECURSIVE PixelSum(_, _)
PixelSum(fs, p) ==
    IF fs = <<>> THEN 0 ELSE Head(fs).pixels[p] + PixelSum(Tail(fs), p)

FloorMean(fs) ==
    [p \in 1..Len(fs[1].pixels) |-> PixelSum(fs, p) \div Len(fs)]

\* Every minute key a file name of the model can have.
SavesOfKey(k) == {i \in 1..Len(saves) : saves[i].key = k}

SavedFiles(s) == {s[i].file : i \in 1..Len(s)}

\* C1: averaging correctness.  For every bucket whose decoded frames all
\* have one shape (N >= 1 of them), every pixel of the averaged frame that
\* is saved, and of the one on disk, is floor((v1 + ... + vN) / N), a value
\* in 0..65535: the accumulator does not wrap.
C1_AveragingCorrectness ==
    /\ \A i \in 1..Len(saves) :
          LET fs == Decoded(FramesOfMinute(saves[i].key))
          IN (fs # <<>> /\ SameShape(fs)) =>
                /\ saves[i].file.image = FloorMean(fs)
                /\ \A p \in 1..Len(saves[i].file.image) :
                      saves[i].file.image[p] \in 0..65535
    /\ \A d \in avgDisk : \A k \in AllMinuteKeys :
          LET fs == Decoded(FramesOfMinute(k))
          IN (d.path = averaged_image_path("MISS2", k) /\ fs # <<>> /\ SameShape(fs))
                => d.image = FloorMean(fs)

\* C1 witness: a file on disk averaged from two or more frames whose sum at
\* the first pixel is above 65535.
C1_Witness ==
    \E i \in 1..Len(saves) :
        LET fs == Decoded(FramesOfMinute(saves[i].key))
        IN /\ Len(fs) >= 2
           /\ SameShape(fs)
           /\ PixelSum(fs, 1) > 65535
           /\ PixelSum(fs, 2) % Len(fs) # 0
           /\ saves[i].file \in avgDisk

\* C2: a pass issues exactly one save of an averaged frame for every minute
\* key that has a decoded frame and none for a key without frames or whose
\* frames all fail to decode; an averaged file on disk belongs to a key
\* with a decoded frame.
C2_OnePerMinute ==
    /\ \A k \in AllMinuteKeys :
          /\ Cardinality(SavesOfKey(k)) <=
                (IF Decoded(FramesOfMinute(k)) # <<>> THEN 1 ELSE 0)
          /\ avg_pc = "done" =>
                Cardinality(SavesOfKey(k)) =
                    (IF Decoded(FramesOfMinute(k)) # <<>> THEN 1 ELSE 0)
    /\ \A d \in avgDisk : \E k \in AllMinuteKeys :
          /\ Decoded(FramesOfMinute(k)) # <<>>
          /\ d.path = averaged_image_path("MISS2", k)
    /\ \A d1, d2 \in avgDisk : d1.path = d2.path => d1 = d2

\* C2 witness: a finished pass with one minute saved and another minute
\* whose frames all failed to decode.
C2_Witness ==
    /\ avg_pc = "done"
    /\ \E k1, k2 \in AllMinuteKeys :
          /\ SavesOfKey(k1) # {}
          /\ FramesOfMinute(k2) # <<>>
          /\ Decoded(FramesOfMinute(k2)) = <<>>
          /\ SavesOfKey(k2) = {}

\* C3: a frame that fails to open, decode or add is in neither the sum nor
\* the count: inside a bucket the accumulator holds exactly the frames seen
\* so far that could be added; the failure never aborts the pass, and at
\* the end every bucket with a decodable frame has been saved.
C3_FailedFrameSkipped ==
    /\ avg_pc # "aborted"
    /\ avg_pc = "bucket" =>
          LET seen  == SubSeq(CurBucket.filepaths, 1, frame_i - 1)
              added == Contributing(seen)
          IN /\ count = Len(added)
             /\ sum_img_array.some = (Decoded(seen) # <<>>)
             /\ added # <<>> =>
                   sum_img_array.arr =
                       [p \in 1..Len(added[1].pixels) |-> PixelSum(added, p)]
    /\ avg_pc = "done" =>
          \A i \in 1..Len(images_by_minute) :
             LET b == images_by_minute[i]
             IN Decoded(b.filepaths) # <<>> =>
                   \E j \in 1..Len(saves) :
                      /\ saves[j].key = b.key
                      /\ saves[j].count = Len(Contributing(b.filepaths))

\* C3 witness: a finished pass in which a bucket lost a frame to a failure
\* before a good frame of it was added, and a later bucket was saved too.
C3_Witness ==
    /\ avg_pc = "done"
    /\ Len(saves) >= 2
    /\ LET fs == FramesOfMinute(saves[1].key)
       IN /\ Len(fs) = 2
          /\ ~fs[1].decodes
          /\ saves[1].count = 1

\* C4: a second run on the same raw frames issues the same saves (path,
\* pixels, metadata) as the first and leaves the same files; the output path
\* is a function of device and minute key only, one path per pair.
C4_IdempotentOutput ==
    /\ (avg_pc = "done" /\ rerun) =>
          /\ SavedFiles(saves) = SavedFiles(prevSaves)
          /\ avgDisk \subseteq SavedFiles(saves)
    /\ \A f1, f2 \in Range(rawFiles) : \A d1, d2 \in {"MISS1", "MISS2"} :
          (averaged_image_path(d1, minute_key_of(f1))
              = averaged_image_path(d2, minute_key_of(f2)))
          <=> (d1 = d2 /\ minute_key_of(f1) = minute_key_of(f2))

\* C4 witness: the second run has finished and saved two minutes.
C4_Witness ==
    /\ avg_pc = "done"
    /\ rerun
    /\ Len(saves) >= 2
    /\ Cardinality(avgDisk) >= 2

NoteChunks(text) == SelectSeq(text, LAMBDA c : c[1] = "Note")

\* C5 as stated: the provenance note of an averaged frame states the number
\* N of contributing frames ("N-frame average", or the count N as a word).
C5_NoteStatesCount ==
    \A i \in 1..Len(saves) :
       \E j \in 1..Len(NoteChunks(saves[i].file.text)) :
          \E w \in Range(NoteChunks(saves[i].file.text)[j][2]) :
             w \in {ToString(saves[i].count),
                    ToString(saves[i].count) \o "-frame"}

\* C5 as amended: the metadata is the allow-listed entries of the first
\* contributing frame, in their order, followed by a Note that reads
\* "1-minute average image." and then that frame's own Note; with no frame
\* metadata it is the bare note.  The note is the same whatever N is.
C5_NoteOfFirstFrame ==
    \A i \in 1..Len(saves) :
       LET first == Contributing(FramesOfMinute(saves[i].key))[1]
           text  == saves[i].file.text
           own   == NoteChunks(first.info)
       IN /\ text[Len(text)] =
                <<"Note", <<"1-minute", "average", "image.">>
                             \o (IF own = <<>> THEN <<>> ELSE own[1][2])>>
          /\ SubSeq(text, 1, Len(text) - 1) =
                SelectSeq(first.info, LAMBDA c : c[1] \in AllowList)

\* C5 witness: an averaged frame built from two frames whose metadata
\* differ, the first of them carrying metadata.
C5_Witness ==
    \E i \in 1..Len(saves) :
       LET fs == Contributing(FramesOfMinute(saves[i].key))
       IN /\ saves[i].count = 2
          /\ fs[1].info # <<>>
          /\ fs[2].info # fs[1].info
          /\ Len(saves[i].file.text) > 1

(***************************************************************************)
(* Row-position resolution: properties.                                    *)
(***************************************************************************)
\* Half a row: within it, int(round(row)) gives the row back.
RoundTolerance == 100 \div 2

Near(x, row) == x - row * 100 <= RoundTolerance /\ row * 100 - x <= RoundTolerance

C10_RejectNotClamp ==
    cal.op = "rows_live" =>
        /\ \A i \in 1..3 :
              LET w    == emission_wavelengths[i]
                  real == discriminant_live(w, cal.coeffs) >= 0
                  sol  == binned_pixel_position_live(w, cal.coeffs, cal.binY,
                                                     cal.errs[i])
                  ok   == real /\ 0 <= sol /\ sol <= cal.max_pixel_value * 100
              IN /\ cal.rows[i].some = ok
                 /\ ok => cal.rows[i].v = sol
        /\ cal.skipped = (\E i \in 1..3 : ~cal.rows[i].some)
        /\ ~cal.skipped =>
              /\ Len(cal.finals) = 3
              /\ \A i \in 1..3 : cal.finals[i] \in 0..cal.max_pixel_value
        /\ cal.skipped => cal.finals = <<>>

\* C10 witness: for one frame the live maker rejected the 6300 A row as out
\* of range, returned the 5577 A row, and rejected the 4278 A row for a
\* negative discriminant.
C10_Witness ==
    /\ cal.op = "rows_live"
    /\ ~cal.rows[1].some
    /\ discriminant_live(emission_wavelengths[1], cal.coeffs) >= 0
    /\ cal.rows[2].some
    /\ ~cal.rows[3].some
    /\ discriminant_live(emission_wavelengths[3], cal.coeffs) < 0
    /\ cal.skipped

(***************************************************************************)
(* RGB column makers: properties.                                          *)
(***************************************************************************)
\* The frame the i-th turn of the loop was about, as the by-date maker sees it
DateShape(f) ==
    LET bin == extract_binning_from_metadata(f.binning)
    IN zoomed_shape(f.rows, f.cols, bin.binX, bin.binY)
DateRows(f) ==
    LET bin == extract_binning_from_metadata(f.binning)
    IN resolve_rows_date(wavelength_coeffs(f.device), DateShape(f)[1] - 1,
                         bin.binY, <<0, 0, 0>>)
DateSamples(f) ==
    LET bin == extract_binning_from_metadata(f.binning)
    IN [i \in 1..3 |-> process_emission_line_date(DateShape(f), DateRows(f).finals[i],
                                                   bin.binY, horizon_limits(f.device))]
\* the frame reaches row resolution: it is intact, its binning is read and
\* its device is known
Resolvable(f) ==
    /\ f.intact
    /\ extract_binning_from_metadata(f.binning).some
    /\ f.device \in {"MISS1", "MISS2"}
\* row resolution or row extraction fails for one of the three lines
LineFails(f) ==
    /\ Resolvable(f)
    /\ \/ DateRows(f).skipped
       \/ \E i \in 1..3 : DateSamples(f)[i].kind # "sample"
\* all three lines are resolved and extracted
ValidData(f) ==
    /\ Resolvable(f)
    /\ ~DateRows(f).skipped
    /\ \A i \in 1..3 : DateSamples(f)[i].kind = "sample"
Written(name) == \E o \in rgbOut : o.name = rgb_output_filename(name)
Turned(i) == i <= Len(rgbLog) \/ rgb_pc = "done"

C12_FixedLength ==
    (chan.op \in {"line_date", "line_live"} /\ chan.L >= 2
       /\ chan.line.kind # "none") =>
        /\ chan.line.kind = "sample"
        /\ chan.line.len = column_length

\* the by-date maker alone keeps the rule of C12
C12_DateFixedLength ==
    (chan.op = "line_date" /\ chan.L >= 2 /\ chan.line.kind # "none") =>
        /\ chan.line.kind = "sample"
        /\ chan.line.len = column_length

\* a profile whose length does not divide 300, binned by 2, resampled by
\* the by-date maker
C12_DateWitness ==
    /\ chan.op = "line_date"
    /\ chan.L = 7
    /\ chan.binY = 2
    /\ chan.fp_error = -1
    /\ chan.line.len = column_length

\* A channel normalised from a sample: all zeros if the sample is constant;
\* otherwise every value in 0..255, 0 where the sample has its minimum and
\* 255 where it has its maximum.
NormalisedFrom(channel, sample) ==
    /\ channel.kind = "channel"
    /\ Len(channel.values) = Len(sample)
    /\ IF SeqMax(sample) = SeqMin(sample)
       THEN \A i \in 1..Len(sample) : channel.values[i] = 0
       ELSE \A i \in 1..Len(sample) :
               /\ channel.values[i] \in 0..255
               /\ sample[i] = SeqMin(sample) => channel.values[i] = 0
               /\ sample[i] = SeqMax(sample) => channel.values[i] = 255

\* C13: every emission-line sample, in either maker, becomes a channel that
\* is all zeros if the sample is constant (no division by zero) and else has
\* its values in 0..255, 0 at the sample's minimum and 255 at its maximum;
\* the channel depends on its own sample only.
C13_PerChannelNormalisation ==
    chan.op \in {"normalise_date", "normalise_live"} =>
        NormalisedFrom(chan.channel, chan.sample)

\* the by-date maker alone keeps the rule of C13
C13_DateNormalisation ==
    chan.op = "normalise_date" => NormalisedFrom(chan.channel, chan.sample)

\* a sample with a minimum, a maximum and a value between, normalised by
\* the by-date maker
C13_DateWitness ==
    /\ chan.op = "normalise_date"
    /\ chan.sample = <<1, -2, 3>>
    /\ chan.channel.values = <<152, 0, 255>>


\* C14: every RGB column file written has shape (300, 1, 3), its channel 0
\* taken from the 6300 line, channel 1 from the 5577 line and channel 2 from
\* the 4278 line; no column of another shape is written, and none is
\* resampled into that shape on the way to the file.
C14_WrittenShape ==
    \A o \in rgbOut :
        /\ o.image.kind = "column"
        /\ o.image.shape = <<column_length, 1, 3>>
        /\ \A i \in 1..3 :
              /\ o.image.channels[i].line = emission_wavelengths[i]
              /\ o.image.channels[i].sample.kind = "sample"
              /\ o.image.channels[i].sample.len = column_length
        /\ ~o.image.resampled

\* a pass that wrote the columns of a MISS1 frame and of a MISS2 frame
C14_Witness ==
    /\ rgb_pc = "done"
    /\ \E o1, o2 \in rgbOut :
          /\ o1.name.device = "MISS1"
          /\ o2.name.device = "MISS2"
          /\ o1.image.shape = <<column_length, 1, 3>>
          /\ o2.image.channels[3].line = emission_wavelengths[3]


\* The text typed, surrounding blanks aside, is a calendar date in the
\* format the script asks for: YYYYMMDD (averaging) or YYYY/MM/DD.
ExpectedFormat(script, text) ==
    strptime_strict(strip(text), IF script = "average" THEN <<>> ELSE <<"/">>).ok

\* C15: in each script that asks for a date, a text that is not a calendar
\* date in the expected format is reported and the run ends with no file
\* written and no directory created.
C15_InvalidDateNoOutput ==
    (ask.pc = "done" /\ ~ExpectedFormat(ask.script, ask.text)) =>
        /\ ask.reported # "none"
        /\ ask.files = {}
        /\ ask.dirs = {}


\* C16: a pass that finds no eligible input, the input directory missing
\* included, writes no file and creates no directory.  For the keogram
\* scripts: a keogram file exists only for a day whose RGB folder exists.
C16_NoInputNoOutput ==
    \A k \in keoDisk : RgbDirExists(k.title)

\* The same rule for the by-date RGB column maker: a pass over an empty or
\* missing folder leaves no file and no output folder behind.
C16_RgbNoInputNoDirectory ==
    (rgb_pc = "done" /\ spectroFiles = <<>>) =>
        /\ rgbOut = {}
        /\ output_folder \notin rgbDirs


\* C17: whenever stage processes are interrupted or terminated from outside,
\* no output file is left partially written: a partial file always has a
\* live process that is still saving it.
C17_NoPartialOutput ==
    \A f \in OutputFiles :
        pipeDisk[f] = "partial" =>
            \E i \in 1..Len(processes) :
                /\ processes[i].pc = "saving"
                /\ OutputOf(processes[i].script) = f

\* C19: in every cycle the averaging stage is started before the RGB column
\* stage and the RGB column stage before the keogram stage; a downstream
\* stage is never started in a cycle before its upstream stage.
StartedBefore(up, down) ==
    \A i \in 1..Len(started) :
        started[i].script = down =>
            \E j \in 1..(i - 1) :
                /\ started[j].script = up
                /\ started[j].cycle = started[i].cycle
C19_DependencyOrder ==
    /\ StartedBefore("Average_png_maker", "RGB_Column_Maker")
    /\ StartedBefore("RGB_Column_Maker", "Keogram_Maker")
    /\ \A i, j \in 1..Len(started) :
          (i < j) => started[i].cycle <= started[j].cycle

\* the start-up and a later cycle have both started their four scripts
C19_Witness ==
    /\ cycle = MaxCycles
    /\ orch_pc = "waiting"
    /\ Len(started) = MaxCycles * Len(Scripts)
    /\ started[Len(started)].script = "Keogram_Maker"


NoDuplicates(s) == \A i, j \in 1..Len(s) : s[i] = s[j] => i = j

\* C20: when average_images comes to a minute key that is already in the
\* processed-minute collection, that step writes no file and leaves the
\* collection as it is; and no key is in the collection twice.
C20_ProcessedIsNoOp ==
    /\ [][(avg_pc = "bucket" /\ CurBucket.key \in Range(processed_minutes)) =>
             /\ saves' = saves
             /\ avgDisk' = avgDisk
             /\ processed_minutes' = processed_minutes]_vars
    /\ [](NoDuplicates(processed_minutes))

\* the call is over: a minute with decodable frames was in the collection
\* beforehand and got no file, another minute was averaged and added
C20_Witness ==
    /\ avg_pc = "done"
    /\ Len(processed_minutes) = 2
    /\ \E b \in Range(images_by_minute) :
          /\ b.key = processed_minutes[1]
          /\ Contributing(FramesOfMinute(b.key)) # <<>>
          /\ SavesOfKey(b.key) = {}
    /\ SavesOfKey(processed_minutes[2]) # {}

\* The window the rule gives for row r and binning binY in a frame of
\* `rows` rows: h = max(1, int(12 / binY)) // 2 rows on each side of r.
CenteredWindow(r, binY, rows) ==
    LET h == Max2(1, 12 \div binY) \div 2
    IN [first |-> Max2(0, r - h), last |-> Min2(rows, r + h + 1) - 1]

\* C23: the rows process_emission_line averages are the window
\* [max(0, r - h), min(rows, r + h + 1)) with the same half-width h on both
\* sides of the resolved row r, in the live and in the by-date maker, and
\* the line is given up (None) exactly when that window has fewer than 2 rows.
C23_CenteredWindow ==
    chan.op \in {"line_date", "line_live"} =>
        LET w == CenteredWindow(line_row, chan.binY, frame_rows)
        IN /\ (chan.line.kind = "none") <=> (w.last - w.first + 1 < min_rows_for_average)
           /\ chan.line.kind = "sample" =>
                 /\ chan.line.first = w.first
                 /\ chan.line.last = w.last

\* The columns of day d the RGB folder holds as valid files.
ColumnsOnDisk(d) ==
    { <<m, FileAt(rgb_file_path(d, m)).load.data>> :
        m \in { x \in SampleMinutes(d) :
                  LET f == FileAt(rgb_file_path(d, x))
                  IN /\ f.check.exists /\ f.check.intact
                     /\ f.load.exists /\ f.load.intact
                     /\ f.load.shape = <<num_pixels_y, 1, 3>> } }

\* C25: the first live pass after midnight (here 00:03 UTC of 2 June) gives
\* the keogram of the day that just ended its last update, with the columns
\* of its last minutes, and renders the keogram of the new day as well.
C25_LastUpdateAfterMidnight ==
    (keo_script = "live" /\ keo_pc = "idle"
       /\ keo_now = [date |-> 20240602, minute |-> 3]) =>
        /\ \E k \in keoDisk :
              /\ k.title = 20240601
              /\ ColumnsOnDisk(20240601) \subseteq k.raster
        /\ \E k \in keoDisk : k.title = 20240602

\* C26: the path of a rendered keogram is a function of the device and of
\* the UTC date of its raster: the date in the path is the date of the
\* columns in the raster, and two renders of one day are one file.
C26_PathOfDeviceAndDate ==
    /\ \A k \in keoDisk : k.path = <<k.title \div 10000, (k.title \div 100) % 100,
                                     k.title % 100, k.path[4], k.path[5], k.title>>
    /\ \A k1, k2 \in keoDisk : k1.title = k2.title => k1.path = k2.path

\* every subprocess the orchestrator has started and not seen end: those of
\* its list and those it stopped and dropped
AllProcesses == processes \o stopped
AliveOf(script) ==
    { i \in 1..Len(AllProcesses) :
        AllProcesses[i].script = script /\ Alive(AllProcesses[i]) }

\* C30: at most one process of each stage script is alive; the processes of
\* an earlier cycle have exited or been terminated before the next cycle
\* starts its own; the tracked list holds processes of the current cycle only.
C30_OneProcessPerStage ==
    /\ \A n \in 1..Len(Scripts) : Cardinality(AliveOf(Scripts[n])) <= 1
    /\ \A i \in 1..Len(stopped) : ~Alive(stopped[i])
    /\ \A i \in 1..Len(processes) : processes[i].cycle = cycle

\* a later cycle has started its averaging and keogram stages while the
\* keogram stage of the cycle before was stopped inside its save
C30_Witness ==
    /\ cycle = 2
    /\ Len(processes) = Len(Scripts)
    /\ Alive(processes[1]) /\ Alive(processes[4])
    /\ \E i \in 1..Len(stopped) :
          /\ stopped[i].script = "Keogram_Maker"
          /\ stopped[i].cycle = 1
          /\ stopped[i].pc = "terminated"

\* C28: a minute key is in the processed-minute collection only if the
\* averaged frame of that minute was persisted: every key of the collection
\* has its averaged file on disk, also when the save raised an error.
C28_ProcessedImpliesPersisted ==
    \A i \in 1..Len(processed_minutes) :
        \E d \in avgDisk :
            d.path = averaged_image_path("MISS2", processed_minutes[i])

(***************************************************************************)
(* The live pipeline in time: properties.                                  *)
(***************************************************************************)
\* the instant a raw frame's name carries
ImageTime(f) == strptime_YmdHMS(f.date, f.time)

\* C22: in the last-5-minutes averaging mode, every raw frame on disk whose
\* timestamp t has now - 5 min <= t <= now is in the bucket of its own minute
\* key, whichever UTC day t falls in, and every other frame is in no bucket.
C22_WindowMembership ==
    live_pc = "walked" =>
        \A f \in rawLive :
            /\ InWindow(ImageTime(f), live_now) =>
                  \E b \in live_buckets :
                      b.key = minute_key_of(f) /\ f \in b.filepaths
            /\ \A b \in live_buckets :
                  f \in b.filepaths =>
                      /\ b.key = minute_key_of(f)
                      /\ InWindow(ImageTime(f), live_now)

\* the raw frames on disk whose timestamp falls in the minute of key k
FramesOfKey(k) == { f \in rawLive : minute_key_of(f) = k }

\* the last second of the minute of key k
EndOfMinute(k) == strptime_YmdHMS(k[1], k[2] * 100 + 59)

\* no pass to come touches the minute of key k: the window of the last pass
\* started lies after it, and the pass has ended
Settled(k) == live_pc = "idle" /\ live_now # NoTime /\ live_now - five_minutes > EndOfMinute(k)

\* C24: once a minute has ended and every pass that touches it has finished,
\* its persisted averaged frame is the floor-mean over all raw frames whose
\* timestamp falls in that minute, not the mean of a subset of them.
C24_FinalAverageIsFullMinute ==
    \A d \in liveDisk :
        Settled(d.key) =>
            /\ d.members = FramesOfKey(d.key)
            /\ d.image = live_averaged_image(FramesOfKey(d.key))

\* C27: every raw frame written to disk is eventually in the averaged frame
\* of its minute.  The windows of the passes move forward, so a frame that
\* the window of an ended pass has left behind can be included by no later
\* pass: by then it must have been included.
C27_EveryFrameAveraged ==
    \A f \in rawLive :
        (live_pc = "idle" /\ live_now # NoTime
           /\ live_now - five_minutes > ImageTime(f)) => f \in included

MinuteOfName(f) == (f.time \div 10000) * 60 + ((f.time \div 100) % 100)

\* C29: when the stages have run for the day of the frame, every averaged
\* frame the averaging engine wrote for a minute m has its RGB column file
\* under the name and in the folder the keogram assembler looks up for m, so
\* column m = 60 * hour + minute of the keogram is filled and no other is,
\* for every configured device.
C29_FileNameAgreement ==
    (names.pc = "assembled" /\ names.day = names.raw.date)
        => \A a \in names.averaged :
              /\ a \in matching_files(names.averaged, names.day)
              /\ expected_rgb_file(names.device_name, names.day, MinuteOfName(a)) \in names.rgb
              /\ names.keogram = {MinuteOfName(a)}

\* the same for the by-date maker and the device the averaging engine names
\* its files after
NameAgreementOfShippedDevice ==
    (names.pc = "assembled" /\ names.day = names.raw.date
        /\ names.maker = "date" /\ names.device_name = "MISS2")
        => \A a \in names.averaged : names.keogram = {MinuteOfName(a)}

NameAgreementReached ==
    /\ names.pc = "assembled" /\ names.maker = "date" /\ names.device_name = "MISS2"
    /\ names.averaged # {} /\ names.keogram # {}

====
